---- MODULE Spec2Model ----
(***************************************************************************)
(* A model of terraform-provider-garage: the resource adapters             *)
(* (bucket_permission, bucket, key) and the Garage Admin API client they   *)
(* call, run against a Garage server holding one bucket and a pool of      *)
(* access keys.  Identifiers that the code parses (the bucket-permission   *)
(* import ID) are sequences of one-character strings.                      *)
(***************************************************************************)
EXTENDS Integers, Sequences, FiniteSets, TLC

VARIABLES
    garage,      \* the remote Garage server: the bucket, the keys, the grants
    permState,   \* Terraform's stored state of the garage_bucket_permission resource
    bucketState, \* Terraform's stored state of the garage_bucket resource
    keyState,    \* Terraform's stored state of the garage_key resource
    last,        \* the last operation run: its inputs, client calls and diagnostics
    recon,       \* observer of a partial failure followed by a plan/apply cycle
    instances,   \* two garage_bucket_permission resources run side by side:
                 \* the stored state of each and its position in an Update
    inflight     \* the handlers that are between two client calls: the
                 \* bucket-permission Update and the bucket Create

vars == <<garage, permState, bucketState, keyState, last, recon, instances, inflight>>

----------------------------------------------------------------------------
(* Bounds and value sets                                                   *)

MaxLen == 4            \* longest import ID tried
MaxQuota == 1          \* largest quota value planned

Chars == {"b", "k", "/"}
B1 == <<"b">>          \* the ID the server gives the bucket
K1 == <<"k">>
K2 == <<"k", "k">>
K3 == <<"k", "k", "k">>
KeyOrder == <<K1, K2, K3>> \* the order in which the server lists keys
KeyIDs == {KeyOrder[i] : i \in 1..Len(KeyOrder)}

Alias == <<"a">>       \* the global alias configured for the bucket

Strings(n) == UNION {[1..m -> Chars] : m \in 0..n}

Permissions == [read : BOOLEAN, write : BOOLEAN, owner : BOOLEAN]
Perm(r, w, o) == [read |-> r, write |-> w, owner |-> o]
NoPerms == Perm(FALSE, FALSE, FALSE)
FlagNames == {"read", "write", "owner"}

\* What becomes of a request, besides what it asks for: it is served and
\* answered (ok), served and answered with a body that does not decode
\* (garbled), refused with status 500 (reject), served with the response lost
\* on its way back (lost), or lost before the server sees it (unsent).
Outcomes == {"ok", "garbled", "reject", "lost", "unsent"}

----------------------------------------------------------------------------
(* terraform-plugin-framework values: null or known                        *)

BoolValue(b) == [null |-> FALSE, value |-> b]
BoolNull == [null |-> TRUE, value |-> FALSE]
ValueBool(x) == IF x.null THEN FALSE ELSE x.value

StringValue(s) == [null |-> FALSE, value |-> s]
StringNull == [null |-> TRUE, value |-> <<>>]
ValueString(x) == IF x.null THEN <<>> ELSE x.value

Int64Value(n) == [null |-> FALSE, value |-> n]
Int64Null == [null |-> TRUE, value |-> 0]
ValueInt64(x) == IF x.null THEN 0 ELSE x.value

----------------------------------------------------------------------------
(* The Garage server                                                       *)

\* The key list of the bucket as the server reports it: one row per existing
\* key that holds a permission; a key holding none is listed or not.
BucketKeys(g, showZero) ==
    LET rows == [i \in 1..Len(KeyOrder) |->
                    [accessKeyId |-> KeyOrder[i],
                     permissions |-> g.perms[KeyOrder[i]]]]
        Listed(row) == /\ g.keys[row.accessKeyId].exists
                       /\ (row.permissions # NoPerms \/ showZero)
    IN  SelectSeq(rows, Listed)

\* The website configuration of a bucket the server holds when website
\* access is off: none, and no document of either kind.
NoRemoteWebsiteConfig ==
    [nil |-> TRUE, indexDocument |-> StringNull, errorDocument |-> StringNull]

\* json.Decoder.Decode into *WebsiteConfig: the two members are Go strings,
\* and one the body holds as null or leaves out stays "".
DecodeWebsiteConfig(w) ==
    [nil |-> w.nil,
     indexDocument |-> ValueString(w.indexDocument),
     errorDocument |-> ValueString(w.errorDocument)]

\* The Bucket the server returns in a body, as the client decodes it: the
\* quotas object is left out or written with both members null when no quota
\* is set, like the row of a key holding no permission.
BucketBody(g, showZero) ==
    [id |-> g.bucket.id,
     globalAliases |-> g.bucket.globalAliases,
     websiteAccess |-> g.bucket.websiteAccess,
     websiteConfig |-> DecodeWebsiteConfig(g.bucket.websiteConfig),
     quotas |-> [nil |-> /\ g.bucket.quotas.maxSize.null
                         /\ g.bucket.quotas.maxObjects.null
                         /\ ~showZero,
                 maxSize |-> g.bucket.quotas.maxSize,
                 maxObjects |-> g.bucket.quotas.maxObjects],
     keys |-> BucketKeys(g, showZero)]

NilWebsiteConfig == [nil |-> TRUE, indexDocument |-> <<>>, errorDocument |-> <<>>]

NilBucket == [id |-> <<>>, globalAliases |-> <<>>, websiteAccess |-> FALSE,
              websiteConfig |-> NilWebsiteConfig,
              quotas |-> [nil |-> TRUE, maxSize |-> Int64Null, maxObjects |-> Int64Null],
              keys |-> <<>>]

NilKey == [accessKeyId |-> <<>>, name |-> <<>>, secretNil |-> TRUE, secretAccessKey |-> <<>>]

\* The server without its bucket: the grants on it are gone with it.
NoRemoteBucket ==
    [exists |-> FALSE, id |-> <<>>, globalAliases |-> <<>>, websiteAccess |-> FALSE,
     websiteConfig |-> NoRemoteWebsiteConfig,
     quotas |-> [maxSize |-> Int64Null, maxObjects |-> Int64Null]]

\* No failure of the transport: the client has a response.
NoFailure == ""

\* What the client gets when it has no response: no status, no body.
NoResponse(g, fail, applied) ==
    [garage |-> g, status |-> 0, decodes |-> FALSE, fail |-> fail,
     applied |-> applied, bucket |-> NilBucket, key |-> NilKey]

\* The request on the wire: a request that is never sent leaves the server
\* as it is, one whose response is lost is served all the same; in both
\* cases the client has an error of the transport and no response.
OnWire(g, o, resp) ==
    IF o = "unsent" THEN NoResponse(g, "execute", FALSE)
    ELSE IF o = "lost" THEN NoResponse(resp.garage, "execute", resp.applied)
    ELSE resp

\* The server knows the bucket and the key a permission request names.
KnowsBucketKey(g, req) ==
    /\ g.bucket.exists
    /\ req.bucketId = g.bucket.id
    /\ req.accessKeyId \in KeyIDs
    /\ g.keys[req.accessKeyId].exists

Granted(p, q) == Perm(p.read \/ q.read, p.write \/ q.write, p.owner \/ q.owner)
Revoked(p, q) == Perm(p.read /\ ~q.read, p.write /\ ~q.write, p.owner /\ ~q.owner)

\* POST /v2/AllowBucketKey and /v2/DenyBucketKey as the server serves them:
\* the new server state and the response.
ServePerm(g, allow, req, o, showZero) ==
    LET status == IF o = "reject" THEN 500
                  ELSE IF ~KnowsBucketKey(g, req) THEN 404
                  ELSE 200
        cur == g.perms[req.accessKeyId]
        g2 == IF status # 200 THEN g
              ELSE [g EXCEPT !.perms[req.accessKeyId] =
                        IF allow THEN Granted(cur, req.permissions)
                                 ELSE Revoked(cur, req.permissions)]
    IN  OnWire(g, o, [garage |-> g2,
         status |-> status,
         decodes |-> (o # "garbled"),
         fail |-> NoFailure, applied |-> (status = 200),
         bucket |-> IF status = 200 THEN BucketBody(g2, showZero) ELSE NilBucket,
         key |-> NilKey])

\* GET /v2/GetBucketInfo?id=...
ServeGetBucketInfo(g, id, o, showZero) ==
    LET status == IF o = "reject" THEN 500
                  ELSE IF ~(g.bucket.exists /\ g.bucket.id = id) THEN 404
                  ELSE 200
    IN  OnWire(g, o, [garage |-> g,
         status |-> status,
         decodes |-> (o # "garbled"),
         fail |-> NoFailure, applied |-> (status = 200),
         bucket |-> IF status = 200 THEN BucketBody(g, showZero) ELSE NilBucket,
         key |-> NilKey])

\* POST /v2/CreateBucket: the alias is free or the request is refused.
ServeCreateBucket(g, req, o, showZero) ==
    LET status == IF o = "reject" THEN 500
                  ELSE IF g.bucket.exists THEN 409
                  ELSE 200
        g2 == IF status # 200 THEN g
              ELSE [g EXCEPT !.bucket = [NoRemoteBucket EXCEPT
                                            !.exists = TRUE,
                                            !.id = B1,
                                            !.globalAliases = <<req.globalAlias>>],
                             !.perms = [k \in KeyIDs |-> NoPerms]]
    IN  OnWire(g, o, [garage |-> g2,
         status |-> status,
         decodes |-> (o # "garbled"),
         fail |-> NoFailure, applied |-> (status = 200),
         bucket |-> IF status = 200 THEN BucketBody(g2, showZero) ELSE NilBucket,
         key |-> NilKey])

\* POST /v2/UpdateBucket?id=...: the members the request holds are applied;
\* website access is not enabled without an index document, and an error
\* document the request leaves out is one the bucket does not have.
ServeUpdateBucket(g, id, req, o, showZero) ==
    LET web == req.websiteAccess
        status == IF o = "reject" THEN 500
                  ELSE IF ~(g.bucket.exists /\ g.bucket.id = id) THEN 404
                  ELSE IF ~web.nil /\ web.enabled /\ web.indexDocument.null THEN 400
                  ELSE 200
        b1 == IF web.nil THEN g.bucket
              ELSE IF web.enabled
              THEN [g.bucket EXCEPT
                       !.websiteAccess = TRUE,
                       !.websiteConfig = [nil |-> FALSE,
                                          indexDocument |-> web.indexDocument,
                                          errorDocument |-> web.errorDocument]]
              ELSE [g.bucket EXCEPT !.websiteAccess = FALSE,
                                    !.websiteConfig = NoRemoteWebsiteConfig]
        b2 == IF req.quotas.nil THEN b1
              ELSE [b1 EXCEPT !.quotas = [maxSize |-> req.quotas.maxSize,
                                          maxObjects |-> req.quotas.maxObjects]]
        g2 == IF status # 200 THEN g ELSE [g EXCEPT !.bucket = b2]
    IN  OnWire(g, o, [garage |-> g2,
         status |-> status,
         decodes |-> (o # "garbled"),
         fail |-> NoFailure, applied |-> (status = 200),
         bucket |-> IF status = 200 THEN BucketBody(g2, showZero) ELSE NilBucket,
         key |-> NilKey])

\* POST /v2/DeleteBucket?id=...
ServeDeleteBucket(g, id, o) ==
    LET status == IF o = "reject" THEN 500
                  ELSE IF ~(g.bucket.exists /\ g.bucket.id = id) THEN 404
                  ELSE 200
        g2 == IF status # 200 THEN g
              ELSE [g EXCEPT !.bucket = NoRemoteBucket,
                             !.perms = [k \in KeyIDs |-> NoPerms]]
    IN  OnWire(g, o, [garage |-> g2, status |-> status, decodes |-> (o # "garbled"),
         fail |-> NoFailure, applied |-> (status = 200),
         bucket |-> NilBucket, key |-> NilKey])

NoRemoteKey == [exists |-> FALSE, name |-> <<>>, secret |-> <<>>]

\* The key as a body holds it; the secret is there only at creation.
KeyBody(g, k, withSecret) ==
    [accessKeyId |-> k, name |-> g.keys[k].name, secretNil |-> ~withSecret,
     secretAccessKey |-> IF withSecret THEN g.keys[k].secret ELSE <<>>]

\* POST /v2/CreateKey: the server makes up the ID, here the first one free.
ServeCreateKey(g, req, o) ==
    LET free == {i \in 1..Len(KeyOrder) : ~g.keys[KeyOrder[i]].exists}
        status == IF o = "reject" \/ free = {} THEN 500 ELSE 200
        k == KeyOrder[CHOOSE i \in free : \A j \in free : i <= j]
        g2 == IF status # 200 THEN g
              ELSE [g EXCEPT !.keys[k] = [exists |-> TRUE,
                                          name |-> IF req.name.null THEN <<>> ELSE req.name.value,
                                          secret |-> <<"s">>]]
    IN  OnWire(g, o, [garage |-> g2, status |-> status, decodes |-> (o # "garbled"),
         fail |-> NoFailure, applied |-> (status = 200),
         bucket |-> NilBucket,
         key |-> IF status = 200 THEN KeyBody(g2, k, TRUE) ELSE NilKey])

\* GET /v2/GetKeyInfo?id=...: the body holds the secret or not.
ServeGetKeyInfo(g, id, o, withSecret) ==
    LET status == IF o = "reject" THEN 500
                  ELSE IF ~(id \in KeyIDs /\ g.keys[id].exists) THEN 404
                  ELSE 200
    IN  OnWire(g, o, [garage |-> g, status |-> status, decodes |-> (o # "garbled"),
         fail |-> NoFailure, applied |-> (status = 200),
         bucket |-> NilBucket,
         key |-> IF status = 200 THEN KeyBody(g, id, withSecret) ELSE NilKey])

\* POST /v2/DeleteKey?id=...: the key goes, and its grants with it.
ServeDeleteKey(g, id, o) ==
    LET status == IF o = "reject" THEN 500
                  ELSE IF ~(id \in KeyIDs /\ g.keys[id].exists) THEN 404
                  ELSE 200
        g2 == IF status # 200 THEN g
              ELSE [g EXCEPT !.keys[id] = NoRemoteKey, !.perms[id] = NoPerms]
    IN  OnWire(g, o, [garage |-> g2, status |-> status, decodes |-> (o # "garbled"),
         fail |-> NoFailure, applied |-> (status = 200),
         bucket |-> NilBucket, key |-> NilKey])

----------------------------------------------------------------------------
(* The API client: how each method classifies the response                 *)

\* strconv of a status code, as %d prints it: its decimal digits.
RECURSIVE Itoa(_)
Itoa(n) ==
    LET digit == <<"0", "1", "2", "3", "4", "5", "6", "7", "8", "9">>[(n % 10) + 1]
    IN  IF n < 10 THEN <<digit>> ELSE Itoa(n \div 10) \o <<digit>>

\* Mutant: the error text without the status code.
StatusErrorfNoCode(status) == <<"API request failed">>

\* fmt.Errorf("API request failed with status %d: %s", resp.StatusCode, body);
\* the body of the response follows the text modelled here.
StatusErrorf(status) ==
    <<"API request failed with status ">> \o Itoa(status) \o <<": ">>

\* fmt.Errorf("failed to decode response: %w", err)
DecodeErrorf == <<"failed to decode response: ">>

\* a nil error
NoError == <<>>

\* Client.doRequest: the error it returns in place of a response (the
\* fmt.Errorf texts of json.Marshal, http.NewRequestWithContext and
\* httpClient.Do failing), nil when it returns the response.
doRequest(resp) ==
    CASE resp.fail = "marshal" -> <<"failed to marshal request body: ">>
      [] resp.fail = "create" -> <<"failed to create request: ">>
      [] resp.fail = "execute" -> <<"failed to execute request: ">>
      [] OTHER -> NoError

\* A client result: the decoded body or nil, and the error.
Result(resp, nil, err, text) ==
    [nil |-> nil, err |-> err, text |-> text,
     bucket |-> IF nil THEN NilBucket ELSE resp.bucket,
     key |-> IF nil THEN NilKey ELSE resp.key]

\* The result of ListBuckets: a list of buckets in place of one.
ListResult(resp, nil, err, text) ==
    [nil |-> nil, err |-> err, text |-> text,
     bucket |-> NilBucket, key |-> NilKey,
     buckets |-> IF nil THEN <<>> ELSE resp.buckets]

ListBuckets(resp) ==
    IF doRequest(resp) # NoError THEN ListResult(resp, TRUE, TRUE, doRequest(resp))
    ELSE IF resp.status # 200 THEN ListResult(resp, TRUE, TRUE, StatusErrorf(resp.status))
    ELSE IF ~resp.decodes THEN ListResult(resp, TRUE, TRUE, DecodeErrorf)
    ELSE ListResult(resp, FALSE, FALSE, NoError)

\* Mutant: the status of the response is not looked at.
AllowBucketKeyAnyStatus(resp) ==
    IF doRequest(resp) # NoError THEN Result(resp, TRUE, TRUE, doRequest(resp))
    ELSE IF ~resp.decodes THEN Result(resp, TRUE, TRUE, DecodeErrorf)
    ELSE Result(resp, FALSE, FALSE, NoError)

AllowBucketKey(resp) ==
    IF doRequest(resp) # NoError THEN Result(resp, TRUE, TRUE, doRequest(resp))
    ELSE IF resp.status # 200 THEN Result(resp, TRUE, TRUE, StatusErrorf(resp.status))
    ELSE IF ~resp.decodes THEN Result(resp, TRUE, TRUE, DecodeErrorf)
    ELSE Result(resp, FALSE, FALSE, NoError)

DenyBucketKey(resp) ==
    IF doRequest(resp) # NoError THEN Result(resp, TRUE, TRUE, doRequest(resp))
    ELSE IF resp.status # 200 THEN Result(resp, TRUE, TRUE, StatusErrorf(resp.status))
    ELSE IF ~resp.decodes THEN Result(resp, TRUE, TRUE, DecodeErrorf)
    ELSE Result(resp, FALSE, FALSE, NoError)

GetBucketInfo(resp) ==
    IF doRequest(resp) # NoError THEN Result(resp, TRUE, TRUE, doRequest(resp))
    ELSE IF resp.status = 404 THEN Result(resp, TRUE, FALSE, NoError)
    ELSE IF resp.status # 200 THEN Result(resp, TRUE, TRUE, StatusErrorf(resp.status))
    ELSE IF ~resp.decodes THEN Result(resp, TRUE, TRUE, DecodeErrorf)
    ELSE Result(resp, FALSE, FALSE, NoError)

CreateBucket(resp) ==
    IF doRequest(resp) # NoError THEN Result(resp, TRUE, TRUE, doRequest(resp))
    ELSE IF resp.status # 200 /\ resp.status # 201 THEN Result(resp, TRUE, TRUE, StatusErrorf(resp.status))
    ELSE IF ~resp.decodes THEN Result(resp, TRUE, TRUE, DecodeErrorf)
    ELSE Result(resp, FALSE, FALSE, NoError)

\* Mutant: a body that fails to decode passes for an empty bucket.
UpdateBucketNoDecode(resp) ==
    IF doRequest(resp) # NoError THEN Result(resp, TRUE, TRUE, doRequest(resp))
    ELSE IF resp.status # 200 THEN Result(resp, TRUE, TRUE, StatusErrorf(resp.status))
    ELSE Result(resp, FALSE, FALSE, NoError)

UpdateBucket(resp) ==
    IF doRequest(resp) # NoError THEN Result(resp, TRUE, TRUE, doRequest(resp))
    ELSE IF resp.status # 200 THEN Result(resp, TRUE, TRUE, StatusErrorf(resp.status))
    ELSE IF ~resp.decodes THEN Result(resp, TRUE, TRUE, DecodeErrorf)
    ELSE Result(resp, FALSE, FALSE, NoError)

\* No body is read: the result is the error alone.
DeleteBucket(resp) ==
    IF doRequest(resp) # NoError THEN Result(resp, TRUE, TRUE, doRequest(resp))
    ELSE IF resp.status # 200 /\ resp.status # 204 THEN Result(resp, TRUE, TRUE, StatusErrorf(resp.status))
    ELSE Result(resp, TRUE, FALSE, NoError)

CreateKey(resp) ==
    IF doRequest(resp) # NoError THEN Result(resp, TRUE, TRUE, doRequest(resp))
    ELSE IF resp.status # 200 /\ resp.status # 201 THEN Result(resp, TRUE, TRUE, StatusErrorf(resp.status))
    ELSE IF ~resp.decodes THEN Result(resp, TRUE, TRUE, DecodeErrorf)
    ELSE Result(resp, FALSE, FALSE, NoError)

\* Mutant: a 404 is an error like any other status.
GetKeyInfoNo404(resp) ==
    IF doRequest(resp) # NoError THEN Result(resp, TRUE, TRUE, doRequest(resp))
    ELSE IF resp.status # 200 THEN Result(resp, TRUE, TRUE, StatusErrorf(resp.status))
    ELSE IF ~resp.decodes THEN Result(resp, TRUE, TRUE, DecodeErrorf)
    ELSE Result(resp, FALSE, FALSE, NoError)

GetKeyInfo(resp) ==
    IF doRequest(resp) # NoError THEN Result(resp, TRUE, TRUE, doRequest(resp))
    ELSE IF resp.status = 404 THEN Result(resp, TRUE, FALSE, NoError)
    ELSE IF resp.status # 200 THEN Result(resp, TRUE, TRUE, StatusErrorf(resp.status))
    ELSE IF ~resp.decodes THEN Result(resp, TRUE, TRUE, DecodeErrorf)
    ELSE Result(resp, FALSE, FALSE, NoError)

DeleteKey(resp) ==
    IF doRequest(resp) # NoError THEN Result(resp, TRUE, TRUE, doRequest(resp))
    ELSE IF resp.status # 200 /\ resp.status # 204 THEN Result(resp, TRUE, TRUE, StatusErrorf(resp.status))
    ELSE Result(resp, TRUE, FALSE, NoError)

\* No body is read: the result is the error alone.
AddBucketAlias(resp) ==
    IF doRequest(resp) # NoError THEN Result(resp, TRUE, TRUE, doRequest(resp))
    ELSE IF resp.status # 200 /\ resp.status # 204
    THEN Result(resp, TRUE, TRUE, StatusErrorf(resp.status))
    ELSE Result(resp, TRUE, FALSE, NoError)

RemoveBucketAlias(resp) ==
    IF doRequest(resp) # NoError THEN Result(resp, TRUE, TRUE, doRequest(resp))
    ELSE IF resp.status # 200 /\ resp.status # 204
    THEN Result(resp, TRUE, TRUE, StatusErrorf(resp.status))
    ELSE Result(resp, TRUE, FALSE, NoError)

\* The method of the client a name stands for, applied to a response.
ClientMethod(fn, resp) ==
    CASE fn = "ListBuckets" -> ListBuckets(resp)
      [] fn = "GetBucketInfo" -> GetBucketInfo(resp)
      [] fn = "CreateBucket" -> CreateBucket(resp)
      [] fn = "UpdateBucket" -> UpdateBucket(resp)
      [] fn = "DeleteBucket" -> DeleteBucket(resp)
      [] fn = "AddBucketAlias" -> AddBucketAlias(resp)
      [] fn = "RemoveBucketAlias" -> RemoveBucketAlias(resp)
      [] fn = "AllowBucketKey" -> AllowBucketKey(resp)
      [] fn = "DenyBucketKey" -> DenyBucketKey(resp)
      [] fn = "CreateKey" -> CreateKey(resp)
      [] fn = "GetKeyInfo" -> GetKeyInfo(resp)
      [] fn = "DeleteKey" -> DeleteKey(resp)

\* One entry of the log of client calls an operation made.
Call(fn, req, resp, res) ==
    [fn |-> fn, req |-> req, status |-> resp.status, applied |-> resp.applied,
     err |-> res.err, text |-> res.text, nil |-> res.nil, keys |-> res.bucket.keys]

\* The methods sent with POST: they change the server.
MutatingFns == {"AllowBucketKey", "DenyBucketKey", "CreateBucket", "UpdateBucket",
                "DeleteBucket", "AddBucketAlias", "RemoveBucketAlias",
                "CreateKey", "DeleteKey"}

----------------------------------------------------------------------------
(* garage_bucket_permission: the resource adapter                          *)

NoPermState ==
    [present |-> FALSE, id |-> StringNull, bucket_id |-> StringNull,
     access_key_id |-> StringNull, read |-> BoolNull, write |-> BoolNull,
     owner |-> BoolNull]

\* The three flags of a resource model as the code reads them (ValueBool).
Flags(d) == Perm(ValueBool(d.read), ValueBool(d.write), ValueBool(d.owner))

\* The flags the server holds for the key and the bucket a resource model names.
RemoteFlags(g, d) ==
    LET b == ValueString(d.bucket_id)
        k == ValueString(d.access_key_id)
    IN  IF g.bucket.exists /\ g.bucket.id = b /\ k \in KeyIDs THEN g.perms[k] ELSE NoPerms

\* Mutant: the two parts in the wrong order.
SprintfSwapped(b, k) == k \o <<"/">> \o b

\* fmt.Sprintf("%s/%s", bucketID, accessKeyID)
Sprintf(b, k) == b \o <<"/">> \o k

BucketKeyPermRequest(d, p) ==
    [bucketId |-> ValueString(d.bucket_id),
     accessKeyId |-> ValueString(d.access_key_id),
     permissions |-> p]

\* Mutant: only the read flag is taken from the row.
updateStateFromBucketReadOnly(data, bucket) ==
    LET accessKeyID == ValueString(data.access_key_id)
        hits == {i \in 1..Len(bucket.keys) : bucket.keys[i].accessKeyId = accessKeyID}
    IN  IF hits # {}
        THEN LET keyInfo == bucket.keys[CHOOSE j \in hits : \A h \in hits : j <= h]
             IN  [data EXCEPT !.read = BoolValue(keyInfo.permissions.read),
                              !.write = BoolValue(FALSE),
                              !.owner = BoolValue(FALSE)]
        ELSE [data EXCEPT !.read = BoolValue(FALSE),
                          !.write = BoolValue(FALSE),
                          !.owner = BoolValue(FALSE)]

\* Mutant: the first row of the key list, whatever key it is about.
updateStateFromBucketFirstRow(data, bucket) ==
    IF Len(bucket.keys) > 0
    THEN [data EXCEPT !.read = BoolValue(bucket.keys[1].permissions.read),
                      !.write = BoolValue(bucket.keys[1].permissions.write),
                      !.owner = BoolValue(bucket.keys[1].permissions.owner)]
    ELSE [data EXCEPT !.read = BoolValue(FALSE),
                      !.write = BoolValue(FALSE),
                      !.owner = BoolValue(FALSE)]

\* Mutant: the response is not looked at, the planned flags stay.
updateStateFromBucketPlanned(data, bucket) == data

\* Mutant: without the not-found branch, the planned flags stay.
updateStateFromBucketNoDefault(data, bucket) ==
    LET accessKeyID == ValueString(data.access_key_id)
        hits == {i \in 1..Len(bucket.keys) : bucket.keys[i].accessKeyId = accessKeyID}
    IN  IF hits # {}
        THEN LET keyInfo == bucket.keys[CHOOSE j \in hits : \A h \in hits : j <= h]
             IN  [data EXCEPT !.read = BoolValue(keyInfo.permissions.read),
                              !.write = BoolValue(keyInfo.permissions.write),
                              !.owner = BoolValue(keyInfo.permissions.owner)]
        ELSE data

\* The row of the response's key list the loop stops at: the first one whose
\* access key ID is the resource's.
updateStateFromBucket(data, bucket) ==
    LET accessKeyID == ValueString(data.access_key_id)
        hits == {i \in 1..Len(bucket.keys) : bucket.keys[i].accessKeyId = accessKeyID}
    IN  IF hits # {}
        THEN LET i == CHOOSE j \in hits : \A h \in hits : j <= h
                 keyInfo == bucket.keys[i]
             IN  [data EXCEPT !.read = BoolValue(keyInfo.permissions.read),
                              !.write = BoolValue(keyInfo.permissions.write),
                              !.owner = BoolValue(keyInfo.permissions.owner)]
        ELSE [data EXCEPT !.read = BoolValue(FALSE),
                          !.write = BoolValue(FALSE),
                          !.owner = BoolValue(FALSE)]

\* Mutant: split at the last '/'.
parseImportIDLast(id) ==
    LET slashes == {i \in 1..Len(id) : id[i] = "/"}
    IN  IF slashes # {}
        THEN LET i == CHOOSE j \in slashes : \A h \in slashes : j >= h
             IN  [bucketID |-> SubSeq(id, 1, i - 1),
                  accessKeyID |-> SubSeq(id, i + 1, Len(id)),
                  ok |-> TRUE]
        ELSE [bucketID |-> <<>>, accessKeyID |-> <<>>, ok |-> FALSE]

\* parseImportID: split at the first '/'.
parseImportID(id) ==
    LET slashes == {i \in 1..Len(id) : id[i] = "/"}
    IN  IF slashes # {}
        THEN LET i == CHOOSE j \in slashes : \A h \in slashes : j <= h
             IN  [bucketID |-> SubSeq(id, 1, i - 1),
                  accessKeyID |-> SubSeq(id, i + 1, Len(id)),
                  ok |-> TRUE]
        ELSE [bucketID |-> <<>>, accessKeyID |-> <<>>, ok |-> FALSE]

\* The record of an operation, kept in last.
\* drift: the stored flags (all false when nothing is stored) differed from the
\* server's when the operation began.
Op(name, prior, plan, before, calls, err, wrote) ==
    [op |-> name, prior |-> prior, plan |-> plan,
     drift |-> (Flags(prior) # before),
     calls |-> calls, err |-> err, wrote |-> wrote]

\* A bucket-permission Update in which the grant call succeeded and the
\* revoke call failed.
PartialFailure(l) ==
    /\ l.op = "PermUpdate"
    /\ Len(l.calls) = 2
    /\ ~l.calls[1].err
    /\ l.calls[2].err

\* The observer: a partial failure (1), then a Read that keeps the resource
\* (2), then an Update toward the same plan that succeeds (3).
Observe(l) ==
    IF PartialFailure(l) THEN [phase |-> 1, plan |-> Flags(l.plan)]
    ELSE IF recon.phase = 1 /\ l.op = "PermRead" /\ ~l.err /\ l.wrote = "set"
    THEN [phase |-> 2, plan |-> recon.plan]
    ELSE IF /\ recon.phase = 2 /\ l.op = "PermUpdate" /\ ~l.err
            /\ Flags(l.plan) = recon.plan
    THEN [phase |-> 3, plan |-> recon.plan]
    ELSE [phase |-> 0, plan |-> NoPerms]

\* BucketPermissionResource.Create
PermCreate(b, k, p, o, showZero) ==
    /\ ~permState.present
    /\ LET data == [present |-> TRUE, id |-> StringNull,
                    bucket_id |-> StringValue(b), access_key_id |-> StringValue(k),
                    read |-> BoolValue(p.read), write |-> BoolValue(p.write),
                    owner |-> BoolValue(p.owner)]
           allowReq == BucketKeyPermRequest(data, Flags(data))
           resp == ServePerm(garage, TRUE, allowReq, o, showZero)
           res == AllowBucketKey(resp)
           calls == <<Call("AllowBucketKey", allowReq, resp, res)>>
           withID == [data EXCEPT !.id = StringValue(Sprintf(ValueString(data.bucket_id),
                                                             ValueString(data.access_key_id)))]
           before == RemoteFlags(garage, data)
           l == IF res.err
                THEN Op("PermCreate", permState, data, before, calls, TRUE, "none")
                ELSE Op("PermCreate", permState, data, before, calls, FALSE, "set")
       IN  /\ garage' = resp.garage
           /\ permState' = IF res.err THEN permState
                           ELSE updateStateFromBucket(withID, res.bucket)
           /\ last' = l
           /\ recon' = Observe(l)
    /\ UNCHANGED <<instances, inflight, bucketState, keyState>>

\* BucketPermissionResource.Read
PermRead(o, showZero) ==
    /\ permState.present
    /\ inflight.perm.pc = "idle"
    /\ LET data == permState
           bucketID == ValueString(data.bucket_id)
           resp == ServeGetBucketInfo(garage, bucketID, o, showZero)
           res == GetBucketInfo(resp)
           calls == <<Call("GetBucketInfo", [id |-> bucketID], resp, res)>>
           before == RemoteFlags(garage, data)
           l == IF res.err
                THEN Op("PermRead", permState, data, before, calls, TRUE, "none")
                ELSE IF res.nil
                THEN Op("PermRead", permState, data, before, calls, FALSE, "removed")
                ELSE Op("PermRead", permState, data, before, calls, FALSE, "set")
       IN  /\ garage' = resp.garage
           /\ permState' = IF res.err THEN permState
                           ELSE IF res.nil THEN NoPermState
                           ELSE updateStateFromBucket(data, res.bucket)
           /\ last' = l
           /\ recon' = Observe(l)
    /\ UNCHANGED <<instances, inflight, bucketState, keyState>>

\* Mutant: a grant when a planned flag is not held on the server.
EnablingRemote(data, state) ==
    \E f \in FlagNames : Flags(data)[f] /\ ~RemoteFlags(garage, data)[f]

\* Mutant: a grant whenever a planned flag is true, changed or not.
EnablingPlanned(data, state) ==
    ValueBool(data.read) \/ ValueBool(data.write) \/ ValueBool(data.owner)

\* BucketPermissionResource.Update: "If any permission is being enabled".
Enabling(data, state) ==
    LET readChanged == ValueBool(data.read) # ValueBool(state.read)
        writeChanged == ValueBool(data.write) # ValueBool(state.write)
        ownerChanged == ValueBool(data.owner) # ValueBool(state.owner)
    IN  \/ (readChanged /\ ValueBool(data.read))
        \/ (writeChanged /\ ValueBool(data.write))
        \/ (ownerChanged /\ ValueBool(data.owner))

\* Mutant: the planned flags, changed or not.
AllowPermissionsPlanned(data, state) == Flags(data)

\* The permissions of allowReq.
AllowPermissions(data, state) ==
    LET readChanged == ValueBool(data.read) # ValueBool(state.read)
        writeChanged == ValueBool(data.write) # ValueBool(state.write)
        ownerChanged == ValueBool(data.owner) # ValueBool(state.owner)
    IN  Perm(readChanged /\ ValueBool(data.read),
             writeChanged /\ ValueBool(data.write),
             ownerChanged /\ ValueBool(data.owner))

\* "If any permission is being disabled".
Disabling(data, state) ==
    LET readChanged == ValueBool(data.read) # ValueBool(state.read)
        writeChanged == ValueBool(data.write) # ValueBool(state.write)
        ownerChanged == ValueBool(data.owner) # ValueBool(state.owner)
    IN  \/ (readChanged /\ ~ValueBool(data.read))
        \/ (writeChanged /\ ~ValueBool(data.write))
        \/ (ownerChanged /\ ~ValueBool(data.owner))

\* Mutant: every changed flag, whichever way it changed.
DenyPermissionsChanged(data, state) ==
    Perm(ValueBool(data.read) # ValueBool(state.read),
         ValueBool(data.write) # ValueBool(state.write),
         ValueBool(data.owner) # ValueBool(state.owner))

\* The permissions of denyReq.
DenyPermissions(data, state) ==
    LET readChanged == ValueBool(data.read) # ValueBool(state.read)
        writeChanged == ValueBool(data.write) # ValueBool(state.write)
        ownerChanged == ValueBool(data.owner) # ValueBool(state.owner)
    IN  Perm(readChanged /\ ~ValueBool(data.read),
             writeChanged /\ ~ValueBool(data.write),
             ownerChanged /\ ~ValueBool(data.owner))

\* Mutant: the state is written whether or not a call failed.
UpdatedStateAlways(state, data, failed, bucketNil, bucket) ==
    IF bucketNil \/ failed THEN data ELSE updateStateFromBucket(data, bucket)

\* What Update leaves in the stored state: nothing new after a failed call,
\* the plan when no call was made (bucket == nil), else the plan with the
\* flags of the last response.
UpdatedState(state, data, failed, bucketNil, bucket) ==
    IF failed THEN state
    ELSE IF bucketNil THEN data
    ELSE updateStateFromBucket(data, bucket)

\* No Update of the bucket-permission resource is between two calls.
NoPermCall ==
    [pc |-> "idle", data |-> NoPermState, calls |-> <<>>, before |-> NoPerms,
     after |-> NoPerms]

\* BucketPermissionResource.Update up to its second client call: the grant
\* call when a flag is being enabled, and the return that follows it when
\* the call failed or no flag is being disabled; the revoke call and the
\* return when no flag is being enabled; the return alone when no flag
\* changes.  An Update that goes on to the revoke call is recorded in last
\* as "PermUpdateGranted", an Update that returned as "PermUpdate".
PermUpdate(p, o, showZero) ==
    /\ permState.present
    /\ inflight.perm.pc = "idle"
    /\ LET state == permState
           data == [state EXCEPT !.read = BoolValue(p.read),
                                 !.write = BoolValue(p.write),
                                 !.owner = BoolValue(p.owner)]
           enabling == Enabling(data, state)
           disabling == Disabling(data, state)
           req == IF enabling
                  THEN BucketKeyPermRequest(data, AllowPermissions(data, state))
                  ELSE BucketKeyPermRequest(data, DenyPermissions(data, state))
           resp == ServePerm(garage, enabling, req, o, showZero)
           res == IF enabling THEN AllowBucketKey(resp) ELSE DenyBucketKey(resp)
           called == enabling \/ disabling
           calls == IF enabling THEN <<Call("AllowBucketKey", req, resp, res)>>
                    ELSE IF disabling THEN <<Call("DenyBucketKey", req, resp, res)>>
                    ELSE <<>>
           failed == called /\ res.err
           pending == enabling /\ ~res.err /\ disabling
           before == RemoteFlags(garage, data)
           l == Op(IF pending THEN "PermUpdateGranted" ELSE "PermUpdate",
                   state, data, before, calls, failed,
                   IF failed \/ pending THEN "none" ELSE "set")
       IN  /\ garage' = IF called THEN resp.garage ELSE garage
           /\ permState' = IF pending THEN permState
                           ELSE UpdatedState(state, data, failed, ~called, res.bucket)
           /\ inflight' = [inflight EXCEPT !.perm =
                              IF pending
                              THEN [pc |-> "revoke", data |-> data, calls |-> calls,
                                    before |-> before,
                                    after |-> RemoteFlags(resp.garage, data)]
                              ELSE NoPermCall]
           /\ last' = l
           \* between its two calls the Update of the cycle is still under
           \* way; any other Update ends the cycle
           /\ recon' = IF ~pending THEN Observe(l)
                       ELSE IF recon.phase = 2 /\ Flags(data) = recon.plan THEN recon
                       ELSE [phase |-> 0, plan |-> NoPerms]
    /\ UNCHANGED <<instances, bucketState, keyState>>

\* The rest of an Update whose grant call succeeded: the revoke call and the
\* return.  Other handlers and other actors may have run since the grant
\* call; when the flags of the key are no longer those the grant call left,
\* the Update counts as one that met drift.
PermUpdateRevoke(o, showZero) ==
    /\ inflight.perm.pc = "revoke"
    /\ LET state == permState
           data == inflight.perm.data
           denyReq == BucketKeyPermRequest(data, DenyPermissions(data, state))
           resp == ServePerm(garage, FALSE, denyReq, o, showZero)
           res == DenyBucketKey(resp)
           calls == inflight.perm.calls \o <<Call("DenyBucketKey", denyReq, resp, res)>>
           interfered == RemoteFlags(garage, data) # inflight.perm.after
           l == [Op("PermUpdate", state, data, inflight.perm.before, calls, res.err,
                    IF res.err THEN "none" ELSE "set")
                 EXCEPT !.drift = @ \/ interfered]
       IN  /\ garage' = resp.garage
           /\ permState' = UpdatedState(state, data, res.err, FALSE, res.bucket)
           /\ inflight' = [inflight EXCEPT !.perm = NoPermCall]
           /\ last' = l
           /\ recon' = Observe(l)
    /\ UNCHANGED <<instances, bucketState, keyState>>

\* BucketPermissionResource.Delete; the framework drops the stored state when
\* Delete reports no error.
PermDelete(o, showZero) ==
    /\ permState.present
    /\ inflight.perm.pc = "idle"
    /\ LET data == permState
           denyReq == BucketKeyPermRequest(data, Flags(data))
           resp == ServePerm(garage, FALSE, denyReq, o, showZero)
           res == DenyBucketKey(resp)
           calls == <<Call("DenyBucketKey", denyReq, resp, res)>>
           before == RemoteFlags(garage, data)
           l == IF res.err
                THEN Op("PermDelete", permState, data, before, calls, TRUE, "none")
                ELSE Op("PermDelete", permState, data, before, calls, FALSE, "removed")
       IN  /\ garage' = resp.garage
           /\ permState' = IF res.err THEN permState ELSE NoPermState
           /\ last' = l
           /\ recon' = Observe(l)
    /\ UNCHANGED <<instances, inflight, bucketState, keyState>>

\* BucketPermissionResource.ImportState: the three attributes are set on an
\* empty state, the flags stay null.
PermImportState(id) ==
    /\ ~permState.present
    /\ LET parsed == parseImportID(id)
           data == [NoPermState EXCEPT !.present = TRUE,
                                       !.id = StringValue(id),
                                       !.bucket_id = StringValue(parsed.bucketID),
                                       !.access_key_id = StringValue(parsed.accessKeyID)]
           l == IF ~parsed.ok
                THEN Op("PermImportState", permState, id, NoPerms, <<>>, TRUE, "none")
                ELSE Op("PermImportState", permState, id, NoPerms, <<>>, FALSE, "set")
       IN  /\ permState' = IF ~parsed.ok THEN permState ELSE data
           /\ last' = l
           /\ recon' = Observe(l)
    /\ UNCHANGED <<instances, inflight, garage, bucketState, keyState>>

\* Another actor of the Garage cluster flips one permission of one key.
External(k, f) ==
    /\ garage.keys[k].exists
    /\ garage.bucket.exists
    /\ LET cur == garage.perms[k]
           new == CASE f = "read" -> [cur EXCEPT !.read = ~@]
                    [] f = "write" -> [cur EXCEPT !.write = ~@]
                    [] OTHER -> [cur EXCEPT !.owner = ~@]
           l == Op("External", permState, NoPerms, cur, <<>>, FALSE, "none")
       IN  /\ garage' = [garage EXCEPT !.perms[k] = new]
           /\ last' = l
           /\ recon' = Observe(l)
    /\ UNCHANGED <<instances, inflight, permState, bucketState, keyState>>

----------------------------------------------------------------------------
(* garage_bucket: the resource adapter                                     *)

NoBucketState ==
    [present |-> FALSE, id |-> StringNull, global_alias |-> StringNull,
     website_enabled |-> BoolNull, website_index_document |-> StringNull,
     website_error_document |-> StringNull, max_size |-> Int64Null,
     max_objects |-> Int64Null]

\* The record of an operation of the bucket or the key resource.
OpOf(name, prior, plan, calls, err, wrote) ==
    [op |-> name, prior |-> prior, plan |-> plan, drift |-> FALSE,
     calls |-> calls, err |-> err, wrote |-> wrote]

\* updateReq.WebsiteAccess as both handlers fill it: a document that is null
\* in the plan is left out of the request.
WebsiteAccess(data) ==
    [nil |-> FALSE,
     enabled |-> ValueBool(data.website_enabled),
     indexDocument |-> IF data.website_index_document.null THEN StringNull
                       ELSE StringValue(ValueString(data.website_index_document)),
     errorDocument |-> IF data.website_error_document.null THEN StringNull
                       ELSE StringValue(ValueString(data.website_error_document))]

\* updateReq.Quotas as both handlers fill it.
Quotas(data) ==
    [nil |-> FALSE,
     maxSize |-> IF data.max_size.null THEN Int64Null
                 ELSE Int64Value(ValueInt64(data.max_size)),
     maxObjects |-> IF data.max_objects.null THEN Int64Null
                    ELSE Int64Value(ValueInt64(data.max_objects))]


\* Create: the website part of the request is there when one of the three
\* website attributes is not null, the quotas when one of the two is not.
ConfiguresWebsite(data) ==
    \/ ~data.website_enabled.null
    \/ ~data.website_index_document.null
    \/ ~data.website_error_document.null

ConfiguresQuotas(data) == ~data.max_size.null \/ ~data.max_objects.null

needsUpdate(data) == ConfiguresWebsite(data) \/ ConfiguresQuotas(data)

CreateUpdateBucketRequest(data) ==
    [websiteAccess |-> IF ConfiguresWebsite(data) THEN WebsiteAccess(data)
                       ELSE [nil |-> TRUE, enabled |-> FALSE,
                             indexDocument |-> StringNull,
                             errorDocument |-> StringNull],
     quotas |-> IF ConfiguresQuotas(data) THEN Quotas(data)
                ELSE [nil |-> TRUE, maxSize |-> Int64Null, maxObjects |-> Int64Null]]

\* Update: both parts are always there.
UpdateBucketRequest(data) ==
    [websiteAccess |-> WebsiteAccess(data), quotas |-> Quotas(data)]

\* No Create of the bucket resource is between two calls.
NoBucketCall ==
    [pc |-> "idle", plan |-> NoBucketState, data |-> NoBucketState, calls |-> <<>>]

\* BucketResource.Create up to its second client call: the CreateBucket
\* call, and the return that follows it when the call failed or the plan
\* needs no UpdateBucket call.  A Create that goes on to the UpdateBucket
\* call is recorded in last as "BucketCreateCreated", a Create that returned
\* as "BucketCreate".
BucketCreate(plan, o, showZero) ==
    /\ ~bucketState.present
    /\ inflight.bucket.pc = "idle"
    /\ LET data == plan
           createReq == [globalAlias |-> ValueString(data.global_alias)]
           resp1 == ServeCreateBucket(garage, createReq, o, showZero)
           res1 == CreateBucket(resp1)
           calls1 == <<Call("CreateBucket", createReq, resp1, res1)>>
           withID == [data EXCEPT !.id = StringValue(res1.bucket.id)]
           updating == ~res1.err /\ needsUpdate(withID)
           l == OpOf(IF updating THEN "BucketCreateCreated" ELSE "BucketCreate",
                     bucketState, data, calls1, res1.err,
                     IF res1.err \/ updating THEN "none" ELSE "set")
       IN  /\ garage' = resp1.garage
           /\ bucketState' = IF res1.err \/ updating THEN bucketState ELSE withID
           /\ inflight' = [inflight EXCEPT !.bucket =
                              IF updating
                              THEN [pc |-> "update", plan |-> data, data |-> withID,
                                    calls |-> calls1]
                              ELSE NoBucketCall]
           /\ last' = l
           /\ recon' = Observe(l)
    /\ UNCHANGED <<instances, permState, keyState>>

\* The rest of a Create whose CreateBucket call succeeded: the UpdateBucket
\* call for the bucket of the ID that call returned, and the return.
BucketCreateUpdate(o, showZero) ==
    /\ inflight.bucket.pc = "update"
    /\ LET withID == inflight.bucket.data
           updateReq == CreateUpdateBucketRequest(withID)
           resp2 == ServeUpdateBucket(garage, ValueString(withID.id), updateReq, o,
                                      showZero)
           res2 == UpdateBucket(resp2)
           calls2 == inflight.bucket.calls \o <<Call("UpdateBucket", updateReq, resp2, res2)>>
           l == OpOf("BucketCreate", bucketState, inflight.bucket.plan, calls2, res2.err,
                     IF res2.err THEN "none" ELSE "set")
       IN  /\ garage' = resp2.garage
           /\ bucketState' = IF res2.err THEN bucketState ELSE withID
           /\ inflight' = [inflight EXCEPT !.bucket = NoBucketCall]
           /\ last' = l
           /\ recon' = Observe(l)
    /\ UNCHANGED <<instances, permState, keyState>>

\* Mutant: a quota the body does not hold is stored as 0.
BucketReadStateZeroQuota(data, bucket) ==
    [data EXCEPT
        !.id = StringValue(bucket.id),
        !.global_alias = IF Len(bucket.globalAliases) > 0
                         THEN StringValue(bucket.globalAliases[1])
                         ELSE data.global_alias,
        !.website_enabled = BoolValue(bucket.websiteAccess),
        !.website_index_document = IF ~bucket.websiteConfig.nil
                                   THEN StringValue(bucket.websiteConfig.indexDocument)
                                   ELSE StringNull,
        !.website_error_document = IF ~bucket.websiteConfig.nil
                                   THEN StringValue(bucket.websiteConfig.errorDocument)
                                   ELSE StringNull,
        !.max_size = Int64Value(ValueInt64(bucket.quotas.maxSize)),
        !.max_objects = Int64Value(ValueInt64(bucket.quotas.maxObjects))]

\* The stored attributes Read derives from the bucket it fetched.
BucketReadState(data, bucket) ==
    [data EXCEPT
        !.id = StringValue(bucket.id),
        !.global_alias = IF Len(bucket.globalAliases) > 0
                         THEN StringValue(bucket.globalAliases[1])
                         ELSE data.global_alias,
        !.website_enabled = BoolValue(bucket.websiteAccess),
        !.website_index_document = IF ~bucket.websiteConfig.nil
                                   THEN StringValue(bucket.websiteConfig.indexDocument)
                                   ELSE StringNull,
        !.website_error_document = IF ~bucket.websiteConfig.nil
                                   THEN StringValue(bucket.websiteConfig.errorDocument)
                                   ELSE StringNull,
        !.max_size = IF ~bucket.quotas.nil /\ ~bucket.quotas.maxSize.null
                     THEN Int64Value(bucket.quotas.maxSize.value)
                     ELSE Int64Null,
        !.max_objects = IF ~bucket.quotas.nil /\ ~bucket.quotas.maxObjects.null
                        THEN Int64Value(bucket.quotas.maxObjects.value)
                        ELSE Int64Null]

\* BucketResource.Read
BucketRead(o, showZero) ==
    /\ bucketState.present
    /\ LET data == bucketState
           bucketID == ValueString(data.id)
           resp == ServeGetBucketInfo(garage, bucketID, o, showZero)
           res == GetBucketInfo(resp)
           calls == <<Call("GetBucketInfo", [id |-> bucketID], resp, res)>>
           l == OpOf("BucketRead", bucketState, data, calls, res.err,
                     IF res.err THEN "none" ELSE IF res.nil THEN "removed" ELSE "set")
       IN  /\ garage' = resp.garage
           /\ bucketState' = IF res.err THEN bucketState
                             ELSE IF res.nil THEN NoBucketState
                             ELSE BucketReadState(data, res.bucket)
           /\ last' = l
           /\ recon' = Observe(l)
    /\ UNCHANGED <<instances, inflight, permState, keyState>>

\* BucketResource.Update: the plan keeps the stored id (UseStateForUnknown)
\* and the stored alias (RequiresReplace).
BucketUpdate(plan, o, showZero) ==
    /\ bucketState.present
    /\ plan.global_alias = bucketState.global_alias
    /\ LET data == [plan EXCEPT !.id = bucketState.id]
           bucketID == ValueString(data.id)
           updateReq == UpdateBucketRequest(data)
           resp == ServeUpdateBucket(garage, bucketID, updateReq, o, showZero)
           res == UpdateBucket(resp)
           calls == <<Call("UpdateBucket", updateReq, resp, res)>>
           l == OpOf("BucketUpdate", bucketState, data, calls, res.err,
                     IF res.err THEN "none" ELSE "set")
       IN  /\ garage' = resp.garage
           /\ bucketState' = IF res.err THEN bucketState ELSE data
           /\ last' = l
           /\ recon' = Observe(l)
    /\ UNCHANGED <<instances, inflight, permState, keyState>>

\* BucketResource.Delete
BucketDelete(o) ==
    /\ bucketState.present
    /\ LET data == bucketState
           bucketID == ValueString(data.id)
           resp == ServeDeleteBucket(garage, bucketID, o)
           res == DeleteBucket(resp)
           calls == <<Call("DeleteBucket", [id |-> bucketID], resp, res)>>
           l == OpOf("BucketDelete", bucketState, data, calls, res.err,
                     IF res.err THEN "none" ELSE "removed")
       IN  /\ garage' = resp.garage
           /\ bucketState' = IF res.err THEN bucketState ELSE NoBucketState
           /\ last' = l
           /\ recon' = Observe(l)
    /\ UNCHANGED <<instances, inflight, permState, keyState>>

\* BucketResource.ImportState: the import ID becomes the id, nothing else is set.
BucketImportState(id) ==
    /\ ~bucketState.present
    /\ inflight.bucket.pc = "idle"
    /\ LET data == [NoBucketState EXCEPT !.present = TRUE, !.id = StringValue(id)]
           l == OpOf("BucketImportState", bucketState, id, <<>>, FALSE, "set")
       IN  /\ bucketState' = data
           /\ last' = l
           /\ recon' = Observe(l)
    /\ UNCHANGED <<instances, inflight, garage, permState, keyState>>

----------------------------------------------------------------------------
(* garage_key: the resource adapter                                        *)

NoKeyState ==
    [present |-> FALSE, id |-> StringNull, name |-> StringNull,
     secret_access_key |-> StringNull]

\* The schema of the key resource: id and secret_access_key are Computed and
\* not Optional, name is Optional and Computed.  A configuration that gives a
\* value to an attribute that is Computed only is refused when it is
\* validated, before a plan is made and before Create runs.
ReadOnlyAttributes(config) ==
    (IF ~config.id.null THEN {"id"} ELSE {})
    \cup (IF ~config.secret_access_key.null THEN {"secret_access_key"} ELSE {})

\* The configuration of a key to create is refused: the error is the one of
\* the schema, no handler of the resource runs and no client call is made.
KeyValidateConfig(config) ==
    /\ ~keyState.present
    /\ ReadOnlyAttributes(config) # {}
    /\ LET l == OpOf("KeyValidateConfig", keyState, config, <<>>, TRUE, "none")
           diags == {"Invalid Configuration for Read-Only Attribute"}
       IN  /\ last' = [op |-> l.op, prior |-> l.prior, plan |-> l.plan,
                       drift |-> l.drift, calls |-> l.calls, err |-> l.err,
                       wrote |-> l.wrote, diags |-> diags]
           /\ recon' = Observe(l)
    /\ UNCHANGED <<instances, inflight, garage, permState, bucketState, keyState>>

\* KeyResource.Create.  name is the planned name; a name the configuration
\* leaves out is unknown in the plan, which is not null and reads as "".
KeyCreate(name, o) ==
    /\ ~keyState.present
    /\ LET data == [NoKeyState EXCEPT !.present = TRUE, !.name = name]
           createReq == [name |-> IF data.name.null THEN StringNull
                                  ELSE StringValue(ValueString(data.name))]
           resp == ServeCreateKey(garage, createReq, o)
           res == CreateKey(resp)
           calls == <<Call("CreateKey", createReq, resp, res)>>
           key == res.key
           new == [data EXCEPT
                      !.id = StringValue(key.accessKeyId),
                      !.name = StringValue(key.name),
                      !.secret_access_key = IF ~key.secretNil
                                            THEN StringValue(key.secretAccessKey)
                                            ELSE data.secret_access_key]
           l == OpOf("KeyCreate", keyState, data, calls, res.err,
                     IF res.err THEN "none" ELSE "set")
       IN  /\ garage' = resp.garage
           /\ keyState' = IF res.err THEN keyState ELSE new
           /\ last' = l
           /\ recon' = Observe(l)
    /\ UNCHANGED <<instances, inflight, permState, bucketState>>

\* Mutant: the secret of the body, when it holds one, replaces the stored one.
KeyReadStateWithSecret(data, key) ==
    [data EXCEPT !.id = StringValue(key.accessKeyId),
                 !.name = StringValue(key.name),
                 !.secret_access_key = IF ~key.secretNil
                                       THEN StringValue(key.secretAccessKey)
                                       ELSE data.secret_access_key]

\* The stored attributes Read derives from the key it fetched: the id and the
\* name; the secret is kept.
KeyReadState(data, key) ==
    [data EXCEPT !.id = StringValue(key.accessKeyId),
                 !.name = StringValue(key.name)]

\* KeyResource.Read
KeyRead(o, withSecret) ==
    /\ keyState.present
    /\ LET data == keyState
           keyID == ValueString(data.id)
           resp == ServeGetKeyInfo(garage, keyID, o, withSecret)
           res == GetKeyInfo(resp)
           calls == <<Call("GetKeyInfo", [id |-> keyID], resp, res)>>
           new == KeyReadState(data, res.key)
           l == OpOf("KeyRead", keyState, data, calls, res.err,
                     IF res.err THEN "none" ELSE IF res.nil THEN "removed" ELSE "set")
       IN  /\ garage' = resp.garage
           /\ keyState' = IF res.err THEN keyState
                          ELSE IF res.nil THEN NoKeyState
                          ELSE new
           /\ last' = l
           /\ recon' = Observe(l)
    /\ UNCHANGED <<instances, inflight, permState, bucketState>>

\* Mutant: an Update that renames the key on the server.
KeyUpdateRenames(name) ==
    /\ keyState.present
    /\ LET data == [keyState EXCEPT !.name = name]
           k == ValueString(keyState.id)
           l == OpOf("KeyUpdate", keyState, data, <<>>, FALSE, "set")
       IN  /\ keyState' = data
           /\ garage' = IF k \in KeyIDs /\ garage.keys[k].exists
                         THEN [garage EXCEPT !.keys[k].name = ValueString(name)]
                         ELSE garage
           /\ last' = l
           /\ recon' = Observe(l)
    /\ UNCHANGED <<instances, inflight, permState, bucketState>>

\* KeyResource.Update: no client call, the plan is written.
KeyUpdate(name) ==
    /\ keyState.present
    /\ LET data == [keyState EXCEPT !.name = name]
           l == OpOf("KeyUpdate", keyState, data, <<>>, FALSE, "set")
       IN  /\ keyState' = data
           /\ last' = l
           /\ recon' = Observe(l)
    /\ UNCHANGED <<instances, inflight, garage, permState, bucketState>>

\* KeyResource.Delete
KeyDelete(o) ==
    /\ keyState.present
    /\ LET data == keyState
           keyID == ValueString(data.id)
           resp == ServeDeleteKey(garage, keyID, o)
           res == DeleteKey(resp)
           calls == <<Call("DeleteKey", [id |-> keyID], resp, res)>>
           l == OpOf("KeyDelete", keyState, data, calls, res.err,
                     IF res.err THEN "none" ELSE "removed")
       IN  /\ garage' = resp.garage
           /\ keyState' = IF res.err THEN keyState ELSE NoKeyState
           /\ last' = l
           /\ recon' = Observe(l)
    /\ UNCHANGED <<instances, inflight, permState, bucketState>>

\* KeyResource.ImportState: the import ID becomes the id, nothing else is set.
KeyImportState(id) ==
    /\ ~keyState.present
    /\ LET data == [NoKeyState EXCEPT !.present = TRUE, !.id = StringValue(id)]
           l == OpOf("KeyImportState", keyState, id, <<>>, FALSE, "set")
       IN  /\ keyState' = data
           /\ last' = l
           /\ recon' = Observe(l)
    /\ UNCHANGED <<instances, inflight, garage, permState, bucketState>>

\* Another actor of the Garage cluster replaces the secret of a key.
RotateSecret(k) ==
    /\ garage.keys[k].exists
    /\ garage.keys[k].secret # <<"r">>
    /\ LET l == OpOf("RotateSecret", keyState, k, <<>>, FALSE, "none")
       IN  /\ garage' = [garage EXCEPT !.keys[k].secret = <<"r">>]
           /\ last' = l
           /\ recon' = Observe(l)
    /\ UNCHANGED <<instances, inflight, permState, bucketState, keyState>>

----------------------------------------------------------------------------
(* The provider: NewClient and Configure                                   *)

\* Mutant: the endpoint is kept as given.
TrimSuffixNothing(str, suffix) == str

\* strings.TrimSuffix: the string without the suffix when it ends with it.
TrimSuffix(str, suffix) ==
    IF /\ Len(str) >= Len(suffix)
       /\ SubSeq(str, Len(str) - Len(suffix) + 1, Len(str)) = suffix
    THEN SubSeq(str, 1, Len(str) - Len(suffix))
    ELSE str

NewClient(endpoint, token) ==
    [nil |-> FALSE, endpoint |-> TrimSuffix(endpoint, <<"/">>), token |-> token]

\* No client: what resp.ResourceData and resp.DataSourceData hold when
\* Configure does not set them.
NilClient == [nil |-> TRUE, endpoint |-> <<>>, token |-> <<>>]

\* Mutant: the environment variable first.
ResolveEnvFirst(setting, env) == IF env = <<>> THEN ValueString(setting) ELSE env

\* The value of a setting: the configured one, or the environment variable
\* when that is empty (a null setting reads as "").
Resolve(setting, env) ==
    IF ValueString(setting) = <<>> THEN env ELSE ValueString(setting)

\* A direct call of NewClient.
NewClientCall(endpoint, token) ==
    /\ LET l == OpOf("NewClient", [endpoint |-> endpoint, token |-> token],
                     NewClient(endpoint, token), <<>>, FALSE, "none")
       IN  /\ last' = l
           /\ recon' = Observe(l)
    /\ UNCHANGED <<instances, inflight, garage, permState, bucketState, keyState>>

\* GarageProvider.Configure.  data is the provider configuration, env the
\* environment (an unset variable reads as ""); last.plan is the response.
Configure(data, env) ==
    /\ LET endpoint == Resolve(data.endpoint, env.GARAGE_ENDPOINT)
           token == Resolve(data.token, env.GARAGE_TOKEN)
           errors == (IF endpoint = <<>> THEN {"Missing Garage Endpoint"} ELSE {})
                     \cup (IF token = <<>> THEN {"Missing Garage Token"} ELSE {})
           garageClient == NewClient(endpoint, token)
           response == IF errors # {}
                       THEN [errors |-> errors, DataSourceData |-> NilClient,
                             ResourceData |-> NilClient]
                       ELSE [errors |-> errors, DataSourceData |-> garageClient,
                             ResourceData |-> garageClient]
           l == OpOf("Configure", [data |-> data, env |-> env], response, <<>>,
                     errors # {}, "none")
       IN  /\ last' = l
           /\ recon' = Observe(l)
    /\ UNCHANGED <<instances, inflight, garage, permState, bucketState, keyState>>

----------------------------------------------------------------------------
(* Specifications                                                          *)

\* The two bucket-permission resources run side by side, the key each one is
\* about, and the other one of the two.
Resources == {1, 2}
KeyOf(r) == KeyOrder[r]
Other(r) == 3 - r

\* A resource between two operations: its stored state and nothing pending.
Idle(state) == [state |-> state, pc |-> "idle", data |-> NoPermState, calls |-> <<>>]

\* The server as the provider finds it: the bucket and two keys exist, no
\* key holds a permission; nothing is stored in Terraform's state.

InitGarage ==
    [bucket |-> [exists |-> TRUE, id |-> B1, globalAliases |-> <<Alias>>,
                 websiteAccess |-> FALSE,
                 websiteConfig |-> NoRemoteWebsiteConfig,
                 quotas |-> [maxSize |-> Int64Null, maxObjects |-> Int64Null]],
     keys |-> [k \in KeyIDs |-> IF k \in {K1, K2}
                                 THEN [exists |-> TRUE, name |-> <<"n">>, secret |-> <<"s">>]
                                 ELSE NoRemoteKey],
     perms |-> [k \in KeyIDs |-> NoPerms]]

Init ==
    /\ garage = InitGarage
    /\ permState = NoPermState
    /\ bucketState = NoBucketState
    /\ keyState = NoKeyState
    /\ last = Op("Init", NoPermState, NoPerms, NoPerms, <<>>, FALSE, "none")
    /\ recon = [phase |-> 0, plan |-> NoPerms]
    /\ instances = [r \in Resources |-> Idle(NoPermState)]
    /\ inflight = [perm |-> NoPermCall, bucket |-> NoBucketCall]

\* The key the bucket-permission resource is about: the one the server lists
\* second.  The other key is there to hold a row of its own.
ManagedKeys == {K2}

\* The import IDs tried next to the other operations: the managed key on the
\* bucket, an ID without '/', and a bucket the server does not have.
ImportIDs == {Sprintf(B1, K2), B1, Sprintf(K1, K2)}

\* What other actors do: the read flag or the write flag of the managed key,
\* at any time, between the two calls of an Update included.
ExternalFlips == ManagedKeys \X {"read", "write"}

\* Whether the server lists the keys that hold no permission shows in a
\* body the client decodes, and nowhere else.
Listings(o) == IF o = "ok" THEN BOOLEAN ELSE {FALSE}

PermNext ==
    \/ \E k \in ManagedKeys, p \in Permissions, o \in Outcomes :
          \E z \in Listings(o) : PermCreate(B1, k, p, o, z)
    \/ \E o \in Outcomes : \E z \in Listings(o) : PermRead(o, z)
    \/ \E p \in Permissions, o \in Outcomes :
          \E z \in Listings(o) : PermUpdate(p, o, z)
    \/ \E o \in Outcomes : \E z \in Listings(o) : PermUpdateRevoke(o, z)
    \/ \E o \in Outcomes : \E z \in Listings(o) : PermDelete(o, z)
    \/ \E id \in ImportIDs : PermImportState(id)

Next ==
    \/ PermNext
    \/ \E x \in ExternalFlips : External(x[1], x[2])

Spec == Init /\ [][Next]_vars

\* ImportState over every import ID of up to MaxLen characters.
ImportNext == \E id \in Strings(MaxLen) : PermImportState(id)

SpecImport == Init /\ [][ImportNext]_vars

\* The plans of the bucket resource: the alias is the configured one; the
\* website flag has a schema default and is never null.
BucketPlans ==
    {[present |-> TRUE, id |-> StringNull, global_alias |-> StringValue(Alias),
      website_enabled |-> BoolValue(w),
      website_index_document |-> i, website_error_document |-> e,
      max_size |-> s, max_objects |-> n] :
        w \in BOOLEAN,
        i \in {StringNull, StringValue(<<"i">>)},
        e \in {StringNull, StringValue(<<"e">>)},
        s \in {Int64Null} \cup {Int64Value(q) : q \in 0..MaxQuota},
        n \in {Int64Null} \cup {Int64Value(q) : q \in 0..MaxQuota}}

\* The planned names of a key: left out of the configuration, or "n".
KeyNames == {StringValue(<<>>), StringValue(<<"n">>)}

\* Every operation of the three resources, none of them by another actor.
\* The inputs are cut down to those that tell the operations apart: plans
\* without website documents and object quota, with the largest size quota or
\* none; two permission sets that need both calls of an Update to get from
\* one to the other; one key name.
OpsBucketPlans ==
    {p \in BucketPlans : /\ p.website_index_document.null
                         /\ p.website_error_document.null
                         /\ ~ValueBool(p.website_enabled)
                         /\ p.max_objects.null
                         /\ p.max_size \in {Int64Null, Int64Value(MaxQuota)}}

OpsKeyNames == {StringValue(<<"n">>)}

OpsPermissions == {Perm(TRUE, FALSE, FALSE), Perm(FALSE, TRUE, FALSE)}
OpsOutcomes == {"ok", "reject", "unsent"}

OpsNext ==
    \/ \E p \in OpsPermissions, o \in OpsOutcomes : PermCreate(B1, K2, p, o, FALSE)
    \/ \E o \in OpsOutcomes : PermRead(o, FALSE)
    \/ \E p \in OpsPermissions, o \in OpsOutcomes : PermUpdate(p, o, FALSE)
    \/ \E o \in OpsOutcomes : PermUpdateRevoke(o, FALSE)
    \/ \E o \in OpsOutcomes : PermDelete(o, FALSE)
    \/ PermImportState(Sprintf(B1, K2))
    \/ \E p \in OpsBucketPlans, o \in OpsOutcomes : BucketCreate(p, o, FALSE)
    \/ \E o \in OpsOutcomes : BucketCreateUpdate(o, FALSE)
    \/ \E o \in OpsOutcomes : BucketRead(o, FALSE)
    \/ \E p \in OpsBucketPlans, o \in OpsOutcomes : BucketUpdate(p, o, FALSE)
    \/ \E o \in OpsOutcomes : BucketDelete(o)
    \/ BucketImportState(B1)
    \/ \E n \in OpsKeyNames, o \in OpsOutcomes : KeyCreate(n, o)
    \/ \E o \in OpsOutcomes : KeyRead(o, FALSE)
    \/ \E n \in OpsKeyNames : KeyUpdate(n)
    \/ \E o \in OpsOutcomes : KeyDelete(o)
    \/ KeyImportState(K1)

SpecOps == Init /\ [][OpsNext]_vars

\* The client alone: each method applied to a response of any status, with
\* a body that decodes or not.
ClientFns ==
    {"ListBuckets", "GetBucketInfo", "CreateBucket", "UpdateBucket", "DeleteBucket",
     "AddBucketAlias", "RemoveBucketAlias", "AllowBucketKey", "DenyBucketKey",
     "CreateKey", "GetKeyInfo", "DeleteKey"}

\* The responses tried: the bucket with the managed key holding p, a key
\* with or without its secret.
ClientResponses ==
    {[garage |-> InitGarage, status |-> st, decodes |-> d,
      fail |-> NoFailure, applied |-> (st = 200),
      bucket |-> BucketBody([InitGarage EXCEPT !.perms[K2] = p], FALSE),
      key |-> KeyBody(InitGarage, K1, ws),
      buckets |-> <<BucketBody([InitGarage EXCEPT !.perms[K2] = p], FALSE)>>] :
        st \in {200, 201, 202, 204, 301, 400, 404, 409, 500}, d \in BOOLEAN, ws \in BOOLEAN, p \in OpsPermissions}
    \cup {NoResponse(InitGarage, "create", FALSE),
          NoResponse(InitGarage, "execute", FALSE),
          NoResponse(InitGarage, "execute", TRUE)}

\* One call of a client method: last.prior is the response, last.plan the
\* result of the method.
ClientCall(fn, resp) ==
    /\ LET res == ClientMethod(fn, resp)
           l == OpOf("ClientCall", resp, res, <<Call(fn, <<>>, resp, res)>>,
                     res.err, "none")
       IN  /\ last' = l
           /\ recon' = Observe(l)
    /\ UNCHANGED <<instances, inflight, garage, permState, bucketState, keyState>>

ClientNext == \E fn \in ClientFns, resp \in ClientResponses : ClientCall(fn, resp)

SpecClient == Init /\ [][ClientNext]_vars

\* The configurations of a key that set id or secret_access_key.
KeyConfigs ==
    {c \in [id : {StringNull, StringValue(K3)},
            name : {StringNull, StringValue(<<"n">>)},
            secret_access_key : {StringNull, StringValue(<<"t">>)}] :
        ReadOnlyAttributes(c) # {}}

\* The bucket resource alone, over the plans that differ in their quotas
\* only: every size quota and object quota up to MaxQuota, or none.
QuotaPlans ==
    {p \in BucketPlans : /\ p.website_index_document.null
                         /\ p.website_error_document.null
                         /\ ~ValueBool(p.website_enabled)}

QuotaNext ==
    \/ \E p \in QuotaPlans, o \in Outcomes, z \in BOOLEAN : BucketCreate(p, o, z)
    \/ \E o \in Outcomes, z \in BOOLEAN : BucketCreateUpdate(o, z)
    \/ \E o \in Outcomes, z \in BOOLEAN : BucketRead(o, z)
    \/ \E p \in QuotaPlans, o \in Outcomes, z \in BOOLEAN : BucketUpdate(p, o, z)
    \/ \E o \in Outcomes : BucketDelete(o)
    \/ BucketImportState(B1)

SpecQuota == Init /\ [][QuotaNext]_vars

\* The key resource and another actor rotating secrets.
KeyNext ==
    \/ \E c \in KeyConfigs : KeyValidateConfig(c)
    \/ \E n \in KeyNames, o \in Outcomes : KeyCreate(n, o)
    \/ \E o \in Outcomes, ws \in BOOLEAN : KeyRead(o, ws)
    \/ \E n \in KeyNames : KeyUpdate(n)
    \/ \E o \in Outcomes : KeyDelete(o)
    \/ \E id \in KeyIDs : KeyImportState(id)
    \/ \E k \in KeyIDs : RotateSecret(k)

SpecKey == Init /\ [][KeyNext]_vars

\* The provider alone: Configure over configurations and environments in
\* which each value is missing, empty or set, and NewClient over endpoints of
\* up to MaxLen characters.
Tokens == {<<>>, <<"b">>, <<"k">>}
NewClientTokens == {<<>>, <<"k">>}

ConfigEndpoints == {StringNull, StringValue(<<>>), StringValue(<<"b">>),
                    StringValue(<<"b", "/">>)}
ConfigTokens == {StringNull} \cup {StringValue(t) : t \in Tokens}
EnvEndpoints == {<<>>, <<"k">>, <<"k", "/">>}

ConfigureNext ==
    \/ \E e \in ConfigEndpoints, t \in ConfigTokens, ee \in EnvEndpoints, et \in Tokens :
          Configure([endpoint |-> e, token |-> t],
                    [GARAGE_ENDPOINT |-> ee, GARAGE_TOKEN |-> et])
    \/ \E e \in Strings(MaxLen), t \in NewClientTokens : NewClientCall(e, t)

SpecConfigure == Init /\ [][ConfigureNext]_vars

----------------------------------------------------------------------------
(* Properties of the bucket-permission resource                            *)

GrantCalls == {i \in 1..Len(last.calls) : last.calls[i].fn = "AllowBucketKey"}
RevokeCalls == {i \in 1..Len(last.calls) : last.calls[i].fn = "DenyBucketKey"}
Sent(i) == last.calls[i].req.permissions
TurningOn(prior, plan) == \E f \in FlagNames : plan[f] # prior[f] /\ plan[f]
TurningOff(prior, plan) == \E f \in FlagNames : plan[f] # prior[f] /\ ~plan[f]
Known(d) == ~d.read.null /\ ~d.write.null /\ ~d.owner.null

\* C1: Update issues a grant call exactly when a flag differs from the prior
\* state with the planned value true; then exactly one, and each flag it
\* sends is (planned and not prior).
C1_GrantCarriesFlagsTurningOn ==
    last.op = "PermUpdate" =>
        LET prior == Flags(last.prior)
            plan == Flags(last.plan)
        IN  /\ (GrantCalls # {}) <=> TurningOn(prior, plan)
            /\ Cardinality(GrantCalls) <= 1
            /\ \A i \in GrantCalls : \A f \in FlagNames :
                   Sent(i)[f] = (plan[f] /\ ~prior[f])

\* prior (false,false,false), planned (true,true,false): one grant with (true,true,false)
C1_Witness ==
    /\ last.op = "PermUpdate"
    /\ Flags(last.prior) = NoPerms
    /\ Flags(last.plan) = Perm(TRUE, TRUE, FALSE)
    /\ Len(last.calls) = 1
    /\ last.calls[1].fn = "AllowBucketKey"
    /\ Sent(1) = Perm(TRUE, TRUE, FALSE)

\* C2 as stated: Update issues a revoke call exactly when a flag differs from
\* the prior state with the planned value false; then exactly one, and each
\* flag it sends is (prior and not planned).
C2_RevokeIffTurningOff ==
    last.op = "PermUpdate" =>
        LET prior == Flags(last.prior)
            plan == Flags(last.plan)
        IN  /\ (RevokeCalls # {}) <=> TurningOff(prior, plan)
            /\ Cardinality(RevokeCalls) <= 1
            /\ \A i \in RevokeCalls : \A f \in FlagNames :
                   Sent(i)[f] = (prior[f] /\ ~plan[f])

\* C2 amended: Update issues a revoke call exactly when a flag differs from
\* the prior state with the planned value false and no grant call of this
\* Update failed; then exactly one, and each flag it sends is (prior and not
\* planned).
C2_RevokeCarriesFlagsTurningOff ==
    last.op = "PermUpdate" =>
        LET prior == Flags(last.prior)
            plan == Flags(last.plan)
            grantFailed == \E i \in GrantCalls : last.calls[i].err
        IN  /\ (RevokeCalls # {}) <=> (TurningOff(prior, plan) /\ ~grantFailed)
            /\ Cardinality(RevokeCalls) <= 1
            /\ \A i \in RevokeCalls : \A f \in FlagNames :
                   Sent(i)[f] = (prior[f] /\ ~plan[f])

\* prior (true,true,true), planned (false,false,false): one revoke with (true,true,true)
C2_Witness ==
    /\ last.op = "PermUpdate"
    /\ Flags(last.prior) = Perm(TRUE, TRUE, TRUE)
    /\ Flags(last.plan) = NoPerms
    /\ Len(last.calls) = 1
    /\ last.calls[1].fn = "DenyBucketKey"
    /\ Sent(1) = Perm(TRUE, TRUE, TRUE)

\* C3: one Update makes at most two client calls, at most one grant and at
\* most one revoke, and none when the planned flags equal the prior flags.
C3_AtMostTwoCalls ==
    last.op = "PermUpdate" =>
        /\ Len(last.calls) <= 2
        /\ Cardinality(GrantCalls) <= 1
        /\ Cardinality(RevokeCalls) <= 1
        /\ GrantCalls \cup RevokeCalls = 1..Len(last.calls)
        /\ (Flags(last.plan) = Flags(last.prior) => last.calls = <<>>)

\* an Update whose plan equals a prior state with flags set, and makes no call
C3_Witness ==
    /\ last.op = "PermUpdate"
    /\ Flags(last.plan) = Flags(last.prior)
    /\ Flags(last.plan) = Perm(TRUE, FALSE, TRUE)
    /\ last.calls = <<>>
    /\ ~last.err

\* C4: after a successful Update that began with the stored flags equal to
\* the server's, the server's flags and the stored flags are the planned ones.
C4_UpdateReachesPlan ==
    (last.op = "PermUpdate" /\ ~last.err /\ ~last.drift) =>
        /\ RemoteFlags(garage, permState) = Flags(last.plan)
        /\ Flags(permState) = Flags(last.plan)
        /\ Known(permState)
        /\ permState.present

\* a successful Update that needed both calls
C4_Witness ==
    /\ last.op = "PermUpdate"
    /\ ~last.err
    /\ ~last.drift
    /\ Len(last.calls) = 2
    /\ Flags(permState) = Flags(last.plan)

\* C5 as stated: when the grant call succeeds and the revoke call fails, Update
\* reports the error, makes no further call and leaves the stored state; the
\* server's flags are the prior flags plus those turned on, and differ from
\* the prior and from the planned flags.
C5_PartialFailure ==
    PartialFailure(last) =>
        LET prior == Flags(last.prior)
            plan == Flags(last.plan)
            remote == RemoteFlags(garage, permState)
        IN  /\ last.err
            /\ Len(last.calls) = 2
            /\ permState = last.prior
            /\ last.wrote = "none"
            /\ remote = Granted(prior, Sent(1))
            /\ remote # prior
            /\ remote # plan

\* C5 amended: when the grant call succeeds and the revoke call fails, Update
\* reports the error, makes no further call and leaves the stored state,
\* whatever the server holds; when the Update began with the stored flags
\* equal to the server's, no other actor changed them between its two calls
\* and the failed revoke call changed nothing on the server, the server's
\* flags are the prior flags plus those turned on, and differ from the prior
\* and from the planned flags.
C5_PartialFailureInSync ==
    PartialFailure(last) =>
        LET prior == Flags(last.prior)
            plan == Flags(last.plan)
            remote == RemoteFlags(garage, permState)
        IN  /\ last.err
            /\ Len(last.calls) = 2
            /\ permState = last.prior
            /\ last.wrote = "none"
            /\ (~last.drift /\ ~last.calls[2].applied) =>
                   /\ remote = Granted(prior, Sent(1))
                   /\ remote # prior
                   /\ remote # plan

\* grant succeeded, revoke was refused, no drift before or between
C5_Witness ==
    /\ PartialFailure(last)
    /\ ~last.drift
    /\ ~last.calls[2].applied
    /\ RemoteFlags(garage, permState) = Perm(TRUE, TRUE, FALSE)
    /\ Flags(last.plan) = Perm(FALSE, TRUE, FALSE)

\* C6: after a partial failure, a Read and then an Update toward the same plan,
\* both successful and with no other actor in between, leave the server's
\* flags and the stored flags equal to the planned flags.
C6_NextCycleReconciles ==
    recon.phase = 3 =>
        /\ RemoteFlags(garage, permState) = recon.plan
        /\ Flags(permState) = recon.plan
        /\ permState.present

\* the cycle has run to its end, and its Update had something left to revoke
C6_Witness ==
    /\ recon.phase = 3
    /\ RevokeCalls # {}
    /\ Flags(permState) = recon.plan

\* The row of a key list for a key: the first with that access key ID.
RowsOf(keys, k) == {i \in 1..Len(keys) : keys[i].accessKeyId = k}

\* C8 as stated: after a grant or revoke call of a successful Update, the
\* bucket's key list is fetched again and the stored flags are those of the
\* key's row in it, all false when there is no such row.
C8_RefetchesKeyList ==
    (last.op = "PermUpdate" /\ ~last.err /\ last.calls # <<>>) =>
        \E i \in 1..Len(last.calls) :
            /\ last.calls[i].fn = "GetBucketInfo"
            /\ \A j \in GrantCalls \cup RevokeCalls : j < i

\* C8 amended: after a grant or revoke call of a successful Update, the stored
\* flags are those of the key's row in the key list of the bucket the last
\* such call returned, all false and no error when there is no such row; the
\* key list is not fetched again.
C8_FlagsFromLastResponse ==
    (last.op = "PermUpdate" /\ ~last.err /\ last.calls # <<>>) =>
        LET keys == last.calls[Len(last.calls)].keys
            rows == RowsOf(keys, ValueString(permState.access_key_id))
        IN  /\ \A i \in 1..Len(last.calls) : last.calls[i].fn # "GetBucketInfo"
            /\ Known(permState)
            /\ \A i \in rows : (\A h \in rows : i <= h) =>
                   Flags(permState) = keys[i].permissions
            /\ rows = {} => Flags(permState) = NoPerms

\* a successful Update whose response has no row for the key, although the
\* plan keeps a flag
C8_Witness ==
    /\ last.op = "PermUpdate"
    /\ ~last.err
    /\ last.calls # <<>>
    /\ RowsOf(last.calls[Len(last.calls)].keys, ValueString(permState.access_key_id)) = {}
    /\ Flags(last.plan) # NoPerms
    /\ Flags(permState) = NoPerms

\* C9: Create makes exactly one grant call with the three planned flags and
\* no revoke call; when the key held nothing on the bucket before, a
\* successful Create stores the planned flags and id = bucket_id "/" access_key_id.
C9_CreateGrantsPlan ==
    last.op = "PermCreate" =>
        /\ Len(last.calls) = 1
        /\ last.calls[1].fn = "AllowBucketKey"
        /\ Sent(1) = Flags(last.plan)
        /\ last.calls[1].req.bucketId = ValueString(last.plan.bucket_id)
        /\ last.calls[1].req.accessKeyId = ValueString(last.plan.access_key_id)
        /\ (~last.err /\ ~last.drift) =>
              /\ permState.present
              /\ Known(permState)
              /\ Flags(permState) = Flags(last.plan)
              /\ permState.bucket_id = last.plan.bucket_id
              /\ permState.access_key_id = last.plan.access_key_id
              /\ permState.id = StringValue(ValueString(last.plan.bucket_id) \o <<"/">>
                                            \o ValueString(last.plan.access_key_id))

\* a successful Create with all three flags false
C9_Witness ==
    /\ last.op = "PermCreate"
    /\ ~last.err
    /\ ~last.drift
    /\ Flags(last.plan) = NoPerms
    /\ Sent(1) = NoPerms
    /\ permState.id = StringValue(<<"b", "/", "k", "k">>)

\* C10: import splits the ID at the first '/': bucket_id is the text before
\* it, access_key_id all the text after it, id the whole ID; an ID without
\* '/' is refused and nothing is written.
C10_ImportSplitsAtFirstSlash ==
    last.op = "PermImportState" =>
        LET id == last.plan
            hasSlash == \E i \in 1..Len(id) : id[i] = "/"
            b == ValueString(permState.bucket_id)
            k == ValueString(permState.access_key_id)
        IN  IF hasSlash
            THEN /\ ~last.err
                 /\ permState.present
                 /\ \A i \in 1..Len(b) : b[i] # "/"
                 /\ b \o <<"/">> \o k = id
                 /\ permState.id = StringValue(id)
                 /\ ~permState.bucket_id.null
                 /\ ~permState.access_key_id.null
            ELSE /\ last.err
                 /\ permState = NoPermState

\* an import whose access key ID holds a further '/'
C10_Witness ==
    /\ last.op = "PermImportState"
    /\ ~last.err
    /\ permState.bucket_id = StringValue(<<"b">>)
    /\ permState.access_key_id = StringValue(<<"k", "/">>)
    /\ permState.id = StringValue(<<"b", "/", "k", "/">>)

----------------------------------------------------------------------------
(* Properties of all operations                                            *)

\* The operation recorded in l made a client call that failed after an
\* earlier mutating client call of the same operation had succeeded.
HazardIn(l) ==
    \E i \in 1..Len(l.calls), j \in 1..Len(l.calls) :
        /\ i < j
        /\ l.calls[i].fn \in MutatingFns
        /\ ~l.calls[i].err
        /\ l.calls[j].err

\* C7: the bucket-permission Update is the only operation in which a client
\* call fails after an earlier mutating client call of the same operation
\* has succeeded.
C7_OnlyPermUpdateHazard == HazardIn(last) => last.op = "PermUpdate"

\* C7: a bucket Create whose CreateBucket call succeeded and whose
\* UpdateBucket call failed: the bucket is on the server, nothing is stored.
C7_Witness ==
    /\ last.op = "BucketCreate"
    /\ HazardIn(last)
    /\ last.calls[1].fn = "CreateBucket"
    /\ last.calls[2].fn = "UpdateBucket"
    /\ last.err
    /\ garage.bucket.exists
    /\ ~bucketState.present

----------------------------------------------------------------------------
(* Properties of Read, of the client and of the provider                   *)

\* The stored state a Read leaves for a bucket and a key, given the key list
\* of the bucket it fetched.
StateOfRead(b, k, keys) ==
    LET rows == RowsOf(keys, k)
        flags == IF rows = {} THEN NoPerms
                 ELSE keys[CHOOSE i \in rows : \A h \in rows : i <= h].permissions
    IN  [present |-> TRUE, id |-> StringValue(Sprintf(b, k)),
         bucket_id |-> StringValue(b), access_key_id |-> StringValue(k),
         read |-> BoolValue(flags.read), write |-> BoolValue(flags.write),
         owner |-> BoolValue(flags.owner)]

\* C11: a bucket-permission Read whose lookup finds the bucket reports no
\* error, keeps the resource and stores the flags of the key's row in the
\* bucket's key list, all false when the key has no row.  The state it leaves
\* is a function of the bucket ID, the key ID and the key list alone, so it is
\* the same after an Import as after a Create.
C11_ReadStoresRowFlags ==
    (last.op = "PermRead" /\ last.calls[1].status = 200 /\ ~last.calls[1].err) =>
        /\ ~last.err
        /\ last.wrote = "set"
        /\ permState = StateOfRead(ValueString(last.prior.bucket_id),
                                   ValueString(last.prior.access_key_id),
                                   last.calls[1].keys)

\* C11: a Read right after an Import (the flags were null) of a key that has
\* no row in the key list: the resource stays, with all three flags false.
C11_Witness ==
    /\ last.op = "PermRead"
    /\ last.prior.read.null
    /\ last.calls[1].status = 200
    /\ RowsOf(last.calls[1].keys, ValueString(permState.access_key_id)) = {}
    /\ permState.present
    /\ Known(permState)
    /\ Flags(permState) = NoPerms

\* The call a ClientCall made.
TheCall == last.calls[1]

\* The text holds the word somewhere.
Contains(text, word) ==
    \E i \in 1..Len(text) :
        /\ i + Len(word) - 1 <= Len(text)
        /\ SubSeq(text, i, i + Len(word) - 1) = word

Is2xx(status) == status \div 100 = 2

\* C12: GetBucketInfo and GetKeyInfo answer a 404 response with a nil result
\* and a nil error.
C12_LookupNotFoundIsNil ==
    (/\ last.op = "ClientCall"
     /\ TheCall.fn \in {"GetBucketInfo", "GetKeyInfo"}
     /\ TheCall.status = 404) =>
        /\ last.plan.nil
        /\ ~last.plan.err
        /\ last.plan.text = NoError

\* C12: GetKeyInfo answered by 404
C12_Witness ==
    /\ last.op = "ClientCall"
    /\ TheCall.fn = "GetKeyInfo"
    /\ TheCall.status = 404
    /\ last.plan.nil
    /\ ~last.plan.err

\* C13: every client method answers a response whose status is neither 2xx
\* nor 404 with an error whose text holds the decimal status code, and with
\* no result.  A request that no response came back for has no status and
\* is not a case of the claim.
C13_StatusErrorHoldsCode ==
    (/\ last.op = "ClientCall"
     /\ last.prior.fail = NoFailure
     /\ ~Is2xx(TheCall.status)
     /\ TheCall.status # 404) =>
        /\ last.plan.err
        /\ last.plan.nil
        /\ Contains(last.plan.text, Itoa(TheCall.status))

\* C13: ListBuckets answered by 500
C13_Witness ==
    /\ last.op = "ClientCall"
    /\ TheCall.fn = "ListBuckets"
    /\ TheCall.status = 500
    /\ last.plan.err
    /\ Contains(last.plan.text, <<"5", "0", "0">>)

\* The methods that read a body.
BodyFns ==
    {"ListBuckets", "GetBucketInfo", "CreateBucket", "UpdateBucket",
     "AllowBucketKey", "DenyBucketKey", "CreateKey", "GetKeyInfo"}

\* The result is the decoded body of the response.
Decoded(fn, resp, res) ==
    /\ ~res.nil
    /\ CASE fn = "ListBuckets" -> res.buckets = resp.buckets
         [] fn \in {"CreateKey", "GetKeyInfo"} -> res.key = resp.key
         [] OTHER -> res.bucket = resp.bucket

\* C14 as stated: a method that reads a body answers any 2xx response whose
\* body decodes with the decoded result and a nil error, and a 2xx response
\* whose body fails to decode with an error.
C14_Any2xxDecodes ==
    (last.op = "ClientCall" /\ TheCall.fn \in BodyFns /\ Is2xx(TheCall.status)) =>
        IF last.prior.decodes
        THEN ~last.plan.err /\ Decoded(TheCall.fn, last.prior, last.plan)
        ELSE last.plan.err

\* The statuses a method that reads a body takes for success.
AcceptedBy(fn) == IF fn \in {"CreateBucket", "CreateKey"} THEN {200, 201} ELSE {200}

\* C14 amended: a method that reads a body answers a 200 response (for
\* CreateBucket and CreateKey also a 201 response) whose body decodes with the
\* decoded result and a nil error; any other 2xx response, and any 2xx
\* response whose body fails to decode, with an error and no result.
C14_AcceptedStatusDecodes ==
    (last.op = "ClientCall" /\ TheCall.fn \in BodyFns /\ Is2xx(TheCall.status)) =>
        IF last.prior.decodes /\ TheCall.status \in AcceptedBy(TheCall.fn)
        THEN ~last.plan.err /\ Decoded(TheCall.fn, last.prior, last.plan)
        ELSE last.plan.err /\ last.plan.nil

\* C14: UpdateBucket answered by 200 with a body that fails to decode
C14_Witness ==
    /\ last.op = "ClientCall"
    /\ TheCall.fn = "UpdateBucket"
    /\ TheCall.status = 200
    /\ ~last.prior.decodes
    /\ last.plan.err
    /\ last.plan.text = DecodeErrorf

\* C15: NewClient stores the token as given and the endpoint without its
\* trailing slash; an endpoint that does not end with a slash is stored as
\* given.
C15_NewClientTrimsSlash ==
    last.op = "NewClient" =>
        LET e == last.prior.endpoint
        IN  /\ last.plan.token = last.prior.token
            /\ (e # <<>> /\ e[Len(e)] = "/") =>
                   last.plan.endpoint \o <<"/">> = e
            /\ ~(e # <<>> /\ e[Len(e)] = "/") => last.plan.endpoint = e

\* C15: an endpoint with a trailing slash, stored without it
C15_Witness ==
    /\ last.op = "NewClient"
    /\ last.prior.endpoint = <<"b", "/">>
    /\ last.plan.endpoint = <<"b">>
    /\ last.plan.token = <<"k">>

\* What a setting resolves to, said from the inputs: the explicit setting
\* when it has a value, the environment variable otherwise.
Resolved(setting, env) ==
    IF ~setting.null /\ setting.value # <<>> THEN setting.value ELSE env

\* C16: Configure takes endpoint and token each from the explicit setting or,
\* when that has no value, from the environment variable; when either comes
\* to nothing it reports an error and hands no client to resources and data
\* sources; otherwise it hands them the client made of the two.
C16_ConfigureResolves ==
    last.op = "Configure" =>
        LET endpoint == Resolved(last.prior.data.endpoint, last.prior.env.GARAGE_ENDPOINT)
            token == Resolved(last.prior.data.token, last.prior.env.GARAGE_TOKEN)
        IN  IF endpoint = <<>> \/ token = <<>>
            THEN /\ last.err
                 /\ last.plan.errors # {}
                 /\ last.plan.ResourceData.nil
                 /\ last.plan.DataSourceData.nil
            ELSE /\ ~last.err
                 /\ last.plan.ResourceData = NewClient(endpoint, token)
                 /\ last.plan.DataSourceData = NewClient(endpoint, token)

\* C16: both the setting and the environment variable give an endpoint and a
\* token, and the client has those of the settings
C16_Witness ==
    /\ last.op = "Configure"
    /\ last.prior.data.endpoint = StringValue(<<"b">>)
    /\ last.prior.env.GARAGE_ENDPOINT = <<"k">>
    /\ last.prior.data.token = StringValue(<<"b">>)
    /\ last.prior.env.GARAGE_TOKEN = <<"k">>
    /\ ~last.err
    /\ last.plan.ResourceData.endpoint = <<"b">>
    /\ last.plan.ResourceData.token = <<"b">>

----------------------------------------------------------------------------
(* Properties of the key resource                                          *)

\* C17: a key Read that keeps the resource leaves secret_access_key as it
\* was stored, whatever the body of the response holds and whatever the
\* secret on the server is by then.
C17_ReadKeepsSecret ==
    (last.op = "KeyRead" /\ last.wrote = "set") =>
        /\ keyState.present
        /\ keyState.secret_access_key = last.prior.secret_access_key

\* C17: a Read of a created key whose secret was replaced on the server: the
\* stored secret is still the one of the creation
C17_Witness ==
    /\ last.op = "KeyRead"
    /\ last.wrote = "set"
    /\ keyState.secret_access_key = StringValue(<<"s">>)
    /\ garage.keys[ValueString(keyState.id)].secret = <<"r">>

\* A key was to be created from a configuration that sets these attributes.
CreateSupplying(attrs) ==
    /\ last.op = "KeyValidateConfig"
    /\ {a \in {"id", "secret_access_key"} : ~last.plan[a].null} = attrs

\* C18: creating a key with exactly one of id and secret_access_key supplied
\* is rejected with the error "Both 'id' and 'secret_access_key' must be
\* provided together", before any client call.
C18_OneOfTwoRejected ==
    (CreateSupplying({"id"}) \/ CreateSupplying({"secret_access_key"})) =>
        /\ last.err
        /\ last.calls = <<>>
        /\ "Both 'id' and 'secret_access_key' must be provided together" \in last.diags

\* C18: a configuration with the id alone is refused, by the schema and with
\* its error
C18_Witness ==
    /\ CreateSupplying({"id"})
    /\ last.err
    /\ last.calls = <<>>
    /\ last.diags = {"Invalid Configuration for Read-Only Attribute"}

\* C19: creating a key with both id and secret_access_key supplied stores the
\* supplied id and secret, and the supplied name or "" when none is given.
C19_BothAdopted ==
    CreateSupplying({"id", "secret_access_key"}) =>
        /\ ~last.err
        /\ keyState.present
        /\ keyState.id = last.plan.id
        /\ keyState.secret_access_key = last.plan.secret_access_key
        /\ keyState.name = StringValue(ValueString(last.plan.name))

\* C19: a configuration with both is refused and nothing is stored
C19_Witness ==
    /\ CreateSupplying({"id", "secret_access_key"})
    /\ last.err
    /\ ~keyState.present
    /\ ~garage.keys[K3].exists

----------------------------------------------------------------------------
(* Properties of the bucket resource                                       *)

\* C20: a Read that follows a successful Create and keeps the bucket stores
\* the max_size and the max_objects of the plan created: the same value for
\* a quota that was planned, null (not 0) for one that was not.
C20_QuotaRoundTrip ==
    [][(/\ last.op = "BucketCreate"
        /\ ~last.err
        /\ last'.op = "BucketRead"
        /\ last'.wrote = "set") =>
           /\ bucketState'.max_size = last.plan.max_size
           /\ bucketState'.max_objects = last.plan.max_objects]_vars

\* C20: a bucket with the largest size quota and no object quota, read back
\* from a body that holds the two
C20_Witness ==
    /\ last.op = "BucketRead"
    /\ last.wrote = "set"
    /\ last.prior.website_index_document.null
    /\ ~last.prior.website_enabled.null
    /\ garage.bucket.quotas.maxSize = Int64Value(MaxQuota)
    /\ garage.bucket.quotas.maxObjects = Int64Null
    /\ bucketState.max_size = Int64Value(MaxQuota)
    /\ bucketState.max_objects = Int64Null

----------------------------------------------------------------------------
(* The bucket resource over website plans                                  *)

\* The plans that differ in their website attributes and their size quota:
\* website access on or off, each document named or left out, the largest
\* size quota or none.
WebsitePlans ==
    {p \in BucketPlans : /\ p.max_objects.null
                         /\ p.max_size \in {Int64Null, Int64Value(MaxQuota)}}

WebsiteNext ==
    \/ \E p \in WebsitePlans, o \in OpsOutcomes, z \in BOOLEAN : BucketCreate(p, o, z)
    \/ \E o \in OpsOutcomes, z \in BOOLEAN : BucketCreateUpdate(o, z)
    \/ \E o \in Outcomes, z \in BOOLEAN : BucketRead(o, z)
    \/ \E p \in WebsitePlans, o \in OpsOutcomes, z \in BOOLEAN : BucketUpdate(p, o, z)
    \/ \E o \in OpsOutcomes : BucketDelete(o)
    \/ BucketImportState(B1)

SpecWebsite == Init /\ [][WebsiteNext]_vars

\* C21: after a Read that keeps the bucket, max_size and max_objects are null
\* when the bucket has no such quota, and website_index_document and
\* website_error_document are each null when the bucket has no such document.
C21_ReadMapsAbsentToNull ==
    (last.op = "BucketRead" /\ last.wrote = "set") =>
        LET web == garage.bucket.websiteConfig
        IN  /\ garage.bucket.quotas.maxSize.null => bucketState.max_size = Int64Null
            /\ garage.bucket.quotas.maxObjects.null => bucketState.max_objects = Int64Null
            /\ (web.nil \/ web.indexDocument.null) =>
                   bucketState.website_index_document = StringNull
            /\ (web.nil \/ web.errorDocument.null) =>
                   bucketState.website_error_document = StringNull

\* C21: a bucket serving a website with an index document and no error
\* document, read back: the stored error document is "", not null
C21_Witness ==
    /\ last.op = "BucketRead"
    /\ last.wrote = "set"
    /\ ~garage.bucket.websiteConfig.nil
    /\ garage.bucket.websiteConfig.indexDocument = StringValue(<<"i">>)
    /\ garage.bucket.websiteConfig.errorDocument = StringNull
    /\ bucketState.website_index_document = StringValue(<<"i">>)
    /\ bucketState.website_error_document = StringValue(<<>>)
    /\ bucketState.max_size = Int64Null

----------------------------------------------------------------------------
(* Properties of the Read, the failure and the frame of every resource     *)

\* The stored state of the resource an operation is about is the empty one.
Removed(op) ==
    CASE op = "BucketRead" -> bucketState = NoBucketState
      [] op = "KeyRead" -> keyState = NoKeyState
      [] op = "PermRead" -> permState = NoPermState

\* C22: when the server answers the lookup of a Read with 404 (the bucket for
\* the bucket and the bucket-permission resource, the key for the key
\* resource), Read reports no error and the resource is removed from the
\* stored state.
C22_NotFoundRemoves ==
    (last.op \in {"BucketRead", "KeyRead", "PermRead"} /\ last.calls[1].status = 404) =>
        /\ ~last.err
        /\ last.wrote = "removed"
        /\ Removed(last.op)

\* C22: a key imported under an ID the server no longer has, read
C22_Witness ==
    /\ last.op = "KeyRead"
    /\ last.prior.present
    /\ last.prior.id = StringValue(K1)
    /\ ~garage.keys[K1].exists
    /\ last.calls[1].fn = "GetKeyInfo"
    /\ last.calls[1].status = 404
    /\ keyState = NoKeyState

ResourceOps ==
    {"PermCreate", "PermRead", "PermUpdate", "PermDelete",
     "BucketCreate", "BucketRead", "BucketUpdate", "BucketDelete",
     "KeyCreate", "KeyRead", "KeyUpdate", "KeyDelete"}

\* The stored state of the resource an operation is about.
StoredBy(op) ==
    IF op \in {"PermCreate", "PermRead", "PermUpdate", "PermDelete"} THEN permState
    ELSE IF op \in {"BucketCreate", "BucketRead", "BucketUpdate", "BucketDelete"}
    THEN bucketState
    ELSE keyState

FailedCalls == {i \in 1..Len(last.calls) : last.calls[i].err}

\* C23: in every Create, Read, Update and Delete of the three resources, when
\* a client call returns an error the operation reports an error, the failed
\* call is the last call it makes, and the stored state of the resource is
\* the one from before the operation, neither written nor removed.
C23_ErrorStopsOperation ==
    (last.op \in ResourceOps /\ FailedCalls # {}) =>
        /\ last.err
        /\ FailedCalls = {Len(last.calls)}
        /\ last.wrote = "none"
        /\ StoredBy(last.op) = last.prior

\* C23: an Update that turns write on and read off and whose grant call is
\* refused: one call, no revoke, the stored flags as before
C23_Witness ==
    /\ last.op = "PermUpdate"
    /\ Flags(last.prior) = Perm(TRUE, FALSE, FALSE)
    /\ Flags(last.plan) = Perm(FALSE, TRUE, FALSE)
    /\ Len(last.calls) = 1
    /\ last.calls[1].fn = "AllowBucketKey"
    /\ last.calls[1].err
    /\ last.err
    /\ Flags(permState) = Perm(TRUE, FALSE, FALSE)

----------------------------------------------------------------------------
(* Two bucket-permission resources on one bucket, run side by side         *)

\* Terraform runs the operations of resources that do not depend on each
\* other in parallel.  Each handler keeps to its own data and state values
\* and shares nothing with the other but the server, so a run of two
\* resources is an interleaving of their client calls: each action below is
\* one client call of one resource, with the handler's code up to its next
\* call or its return.

\* The record of a step of resource r, kept in last.
StepOf(r, name, prior, plan, calls, err, wrote) ==
    [op |-> name, res |-> r, prior |-> prior, plan |-> plan, drift |-> FALSE,
     calls |-> calls, err |-> err, wrote |-> wrote]

\* BucketPermissionResource.Create of resource r
ConcCreate(r, p, o, showZero) ==
    /\ instances[r].pc = "idle"
    /\ ~instances[r].state.present
    /\ LET state == instances[r].state
           data == [present |-> TRUE, id |-> StringNull,
                    bucket_id |-> StringValue(B1), access_key_id |-> StringValue(KeyOf(r)),
                    read |-> BoolValue(p.read), write |-> BoolValue(p.write),
                    owner |-> BoolValue(p.owner)]
           allowReq == BucketKeyPermRequest(data, Flags(data))
           resp == ServePerm(garage, TRUE, allowReq, o, showZero)
           res == AllowBucketKey(resp)
           calls == <<Call("AllowBucketKey", allowReq, resp, res)>>
           withID == [data EXCEPT !.id = StringValue(Sprintf(ValueString(data.bucket_id),
                                                             ValueString(data.access_key_id)))]
       IN  /\ garage' = resp.garage
           /\ instances' = [instances EXCEPT ![r] =
                               IF res.err THEN Idle(state)
                               ELSE Idle(updateStateFromBucket(withID, res.bucket))]
           /\ last' = StepOf(r, "PermCreate", state, data, calls, res.err,
                             IF res.err THEN "none" ELSE "set")
    /\ UNCHANGED <<permState, bucketState, keyState, recon, inflight>>

\* BucketPermissionResource.Read of resource r
ConcRead(r, o, showZero) ==
    /\ instances[r].pc = "idle"
    /\ instances[r].state.present
    /\ LET data == instances[r].state
           bucketID == ValueString(data.bucket_id)
           resp == ServeGetBucketInfo(garage, bucketID, o, showZero)
           res == GetBucketInfo(resp)
           calls == <<Call("GetBucketInfo", [id |-> bucketID], resp, res)>>
       IN  /\ garage' = resp.garage
           /\ instances' = [instances EXCEPT ![r] =
                               IF res.err THEN Idle(data)
                               ELSE IF res.nil THEN Idle(NoPermState)
                               ELSE Idle(updateStateFromBucket(data, res.bucket))]
           /\ last' = StepOf(r, "PermRead", data, data, calls, res.err,
                             IF res.err THEN "none"
                             ELSE IF res.nil THEN "removed" ELSE "set")
    /\ UNCHANGED <<permState, bucketState, keyState, recon, inflight>>

\* BucketPermissionResource.Update of resource r, up to its second call: the
\* grant call when a flag is being enabled, and the return that follows it
\* when the call failed or no flag is being disabled; the revoke call and the
\* return when no flag is being enabled; the return alone when no flag changes.
ConcUpdate(r, p, o, showZero) ==
    /\ instances[r].pc = "idle"
    /\ instances[r].state.present
    /\ LET state == instances[r].state
           data == [state EXCEPT !.read = BoolValue(p.read),
                                 !.write = BoolValue(p.write),
                                 !.owner = BoolValue(p.owner)]
           enabling == Enabling(data, state)
           disabling == Disabling(data, state)
           req == IF enabling
                  THEN BucketKeyPermRequest(data, AllowPermissions(data, state))
                  ELSE BucketKeyPermRequest(data, DenyPermissions(data, state))
           resp == ServePerm(garage, enabling, req, o, showZero)
           res == IF enabling THEN AllowBucketKey(resp) ELSE DenyBucketKey(resp)
           called == enabling \/ disabling
           calls == IF enabling THEN <<Call("AllowBucketKey", req, resp, res)>>
                    ELSE IF disabling THEN <<Call("DenyBucketKey", req, resp, res)>>
                    ELSE <<>>
           failed == called /\ res.err
           pending == enabling /\ ~res.err /\ disabling
       IN  /\ garage' = IF called THEN resp.garage ELSE garage
           /\ instances' = [instances EXCEPT ![r] =
                               IF pending
                               THEN [state |-> state, pc |-> "revoke", data |-> data,
                                     calls |-> calls]
                               ELSE Idle(UpdatedState(state, data, failed, ~called,
                                                      res.bucket))]
           /\ last' = StepOf(r, "PermUpdate", state, data, calls, failed,
                             IF failed \/ pending THEN "none" ELSE "set")
    /\ UNCHANGED <<permState, bucketState, keyState, recon, inflight>>

\* The rest of an Update whose grant call succeeded: the revoke call and the
\* return.
ConcUpdateRevoke(r, o, showZero) ==
    /\ instances[r].pc = "revoke"
    /\ LET state == instances[r].state
           data == instances[r].data
           denyReq == BucketKeyPermRequest(data, DenyPermissions(data, state))
           resp == ServePerm(garage, FALSE, denyReq, o, showZero)
           res == DenyBucketKey(resp)
           calls == instances[r].calls \o <<Call("DenyBucketKey", denyReq, resp, res)>>
       IN  /\ garage' = resp.garage
           /\ instances' = [instances EXCEPT ![r] =
                               Idle(UpdatedState(state, data, res.err, FALSE, res.bucket))]
           /\ last' = StepOf(r, "PermUpdate", state, data, calls, res.err,
                             IF res.err THEN "none" ELSE "set")
    /\ UNCHANGED <<permState, bucketState, keyState, recon, inflight>>

\* BucketPermissionResource.Delete of resource r
ConcDelete(r, o, showZero) ==
    /\ instances[r].pc = "idle"
    /\ instances[r].state.present
    /\ LET data == instances[r].state
           denyReq == BucketKeyPermRequest(data, Flags(data))
           resp == ServePerm(garage, FALSE, denyReq, o, showZero)
           res == DenyBucketKey(resp)
           calls == <<Call("DenyBucketKey", denyReq, resp, res)>>
       IN  /\ garage' = resp.garage
           /\ instances' = [instances EXCEPT ![r] =
                               IF res.err THEN Idle(data) ELSE Idle(NoPermState)]
           /\ last' = StepOf(r, "PermDelete", data, data, calls, res.err,
                             IF res.err THEN "none" ELSE "removed")
    /\ UNCHANGED <<permState, bucketState, keyState, recon, inflight>>

\* The plans are the two that need both calls of an Update to get from one
\* to the other.
ConcNext ==
    \E r \in Resources :
        \/ \E p \in OpsPermissions, o \in OpsOutcomes : ConcCreate(r, p, o, FALSE)
        \/ \E o \in OpsOutcomes : ConcRead(r, o, FALSE)
        \/ \E p \in OpsPermissions, o \in OpsOutcomes : ConcUpdate(r, p, o, FALSE)
        \/ \E o \in OpsOutcomes : ConcUpdateRevoke(r, o, FALSE)
        \/ \E o \in OpsOutcomes : ConcDelete(r, o, FALSE)

SpecConc == Init /\ [][ConcNext]_vars

\* C24: whatever the interleaving of the client calls of two resources on
\* the same bucket and different keys, a step of one resource changes neither
\* the remote flags of the other's key nor the other's stored state, and a
\* step that ends an operation by writing the state after a call leaves the
\* resource's stored flags equal to the remote flags of its own key.
C24_NoInterference ==
    [][\A r \in Resources :
          last'.res = r =>
             /\ garage'.perms[KeyOf(Other(r))] = garage.perms[KeyOf(Other(r))]
             /\ instances'[Other(r)] = instances[Other(r)]
             /\ (last'.wrote = "set" /\ last'.calls # <<>>) =>
                    Flags(instances'[r].state) = garage'.perms[KeyOf(r)]]_vars

\* C24: the second resource ended an Update of two calls while the first is
\* between the grant call and the revoke call of its own, and the two keys
\* hold different flags
C24_Witness ==
    /\ last.op = "PermUpdate"
    /\ last.res = 2
    /\ last.wrote = "set"
    /\ Len(last.calls) = 2
    /\ instances[1].pc = "revoke"
    /\ garage.perms[K1] = Perm(TRUE, TRUE, FALSE)
    /\ garage.perms[K2] = Perm(FALSE, TRUE, FALSE)
    /\ Flags(instances[2].state) = Perm(FALSE, TRUE, FALSE)
    /\ Flags(instances[1].state) = Perm(TRUE, FALSE, FALSE)

----------------------------------------------------------------------------
(* Properties of the bucket-permission Delete, Update and Create           *)

\* C25: after a Delete that reports no error, the key of the resource holds
\* none of read, write and owner on the bucket.
C25_DeleteRevokesAll ==
    (last.op = "PermDelete" /\ ~last.err) =>
        RemoteFlags(garage, last.prior) = NoPerms

\* C25: a Delete that reports no error after an Update whose grant of write
\* succeeded and whose revoke of read failed: the key still holds write
C25_Witness ==
    /\ last.op = "PermDelete"
    /\ ~last.err
    /\ Flags(last.prior) = Perm(TRUE, FALSE, FALSE)
    /\ Sent(1) = Perm(TRUE, FALSE, FALSE)
    /\ permState = NoPermState
    /\ garage.perms[K2] = Perm(FALSE, TRUE, FALSE)

\* C26: in an Update that turns some flags on and others off, the first call
\* is the grant call, and a revoke call is the second call and is made only
\* after the grant call was answered 200 and returned no error.
C26_GrantBeforeRevoke ==
    (/\ last.op = "PermUpdate"
     /\ TurningOn(Flags(last.prior), Flags(last.plan))
     /\ TurningOff(Flags(last.prior), Flags(last.plan))) =>
        /\ Len(last.calls) >= 1
        /\ last.calls[1].fn = "AllowBucketKey"
        /\ \A i \in RevokeCalls :
              /\ i = 2
              /\ last.calls[1].status = 200
              /\ ~last.calls[1].err

\* C26: prior (true,false,true), planned (false,true,true): the grant of
\* write answered 200, then the revoke of read
C26_Witness ==
    /\ last.op = "PermUpdate"
    /\ Flags(last.prior) = Perm(TRUE, FALSE, TRUE)
    /\ Flags(last.plan) = Perm(FALSE, TRUE, TRUE)
    /\ Len(last.calls) = 2
    /\ last.calls[1].fn = "AllowBucketKey"
    /\ last.calls[1].status = 200
    /\ Sent(1) = Perm(FALSE, TRUE, FALSE)
    /\ last.calls[2].fn = "DenyBucketKey"
    /\ Sent(2) = Perm(TRUE, FALSE, FALSE)

\* C27: in every stored state of the bucket-permission resource, id is
\* bucket_id, a '/', and access_key_id; and a Read or an Update that leaves
\* the resource in the state leaves the three as they were.
C27_IdIsBucketSlashKey ==
    /\ permState.present =>
          /\ ~permState.id.null
          /\ ~permState.bucket_id.null
          /\ ~permState.access_key_id.null
          /\ permState.id.value =
                permState.bucket_id.value \o <<"/">> \o permState.access_key_id.value
    /\ (last.op \in {"PermRead", "PermUpdate"} /\ permState.present) =>
          /\ permState.id = last.prior.id
          /\ permState.bucket_id = last.prior.bucket_id
          /\ permState.access_key_id = last.prior.access_key_id

\* C27: the Read that follows the import of "b/kk": the flags are filled in,
\* the three identifiers are those the import stored
C27_Witness ==
    /\ last.op = "PermRead"
    /\ last.wrote = "set"
    /\ last.prior.read.null
    /\ ~permState.read.null
    /\ permState.id = StringValue(<<"b", "/", "k", "k">>)
    /\ permState.bucket_id = StringValue(B1)
    /\ permState.access_key_id = StringValue(K2)

----------------------------------------------------------------------------
(* Properties of the key Update                                            *)

\* C28: an Update of the key resource makes no client call and reports no
\* error, the stored state after it is the plan (the planned name, the id and
\* the secret of the prior state), and the server is as it was before, the
\* name of the key included.
C28_KeyUpdateIsLocal ==
    [][last'.op = "KeyUpdate" =>
          /\ last'.calls = <<>>
          /\ ~last'.err
          /\ keyState' = [keyState EXCEPT !.name = last'.plan.name]
          /\ garage' = garage]_vars

\* C28: an Update to the name "n" of a key created without a name: the
\* stored name is "n", the key on the server still has no name
C28_Witness ==
    /\ last.op = "KeyUpdate"
    /\ last.prior.name = StringValue(<<>>)
    /\ keyState.name = StringValue(<<"n">>)
    /\ keyState.id = StringValue(K3)
    /\ garage.keys[K3].exists
    /\ garage.keys[K3].name = <<>>

----------------------------------------------------------------------------
(* Properties of the bucket-permission Update and Create under drift       *)

\* The flags of the key's row in the key list of the last call's response,
\* all false when the key has no row.
LastReported ==
    LET keys == last.calls[Len(last.calls)].keys
        rows == RowsOf(keys, ValueString(last.plan.access_key_id))
    IN  IF rows = {} THEN NoPerms
        ELSE keys[CHOOSE i \in rows : \A h \in rows : i <= h].permissions

\* C29: when the remote flags differ from the stored prior flags, the calls
\* of an Update are still those the stored prior flags and the plan give (a
\* grant of the flags planned and not stored, a revoke of the flags stored
\* and not planned); an Update that made a call and reports no error stores
\* the flags the last call's response reports for the key; an Update that
\* made no call stores the planned flags.
C29_CallsFromStoredFlags ==
    (last.op = "PermUpdate" /\ last.drift) =>
        LET prior == Flags(last.prior)
            plan == Flags(last.plan)
            grantFailed == \E i \in GrantCalls : last.calls[i].err
        IN  /\ (GrantCalls # {}) <=> TurningOn(prior, plan)
            /\ (RevokeCalls # {}) <=> (TurningOff(prior, plan) /\ ~grantFailed)
            /\ \A i \in GrantCalls : \A f \in FlagNames :
                   Sent(i)[f] = (plan[f] /\ ~prior[f])
            /\ \A i \in RevokeCalls : \A f \in FlagNames :
                   Sent(i)[f] = (prior[f] /\ ~plan[f])
            /\ (~last.err /\ last.calls # <<>>) => Flags(permState) = LastReported
            /\ (last.calls = <<>>) => (~last.err /\ Flags(permState) = plan)

\* C29: the key holds owner and the stored state does not say so; an Update
\* from nothing stored to read grants read alone, reports no error and
\* stores read and owner, which is not the plan
C29_Witness ==
    /\ last.op = "PermUpdate"
    /\ last.drift
    /\ ~last.err
    /\ Flags(last.prior) = NoPerms
    /\ Flags(last.plan) = Perm(TRUE, FALSE, FALSE)
    /\ Len(last.calls) = 1
    /\ Sent(1) = Perm(TRUE, FALSE, FALSE)
    /\ Flags(permState) = Perm(TRUE, FALSE, TRUE)
    /\ garage.perms[K2] = Perm(TRUE, FALSE, TRUE)

\* C30: Create makes no revoke call; a flag the key holds on the bucket
\* before Create and the plan has false is still held after Create, and a
\* Create that reports no error stores that flag as true.
C30_CreateNeverRevokes ==
    [][last'.op = "PermCreate" =>
          LET k == ValueString(last'.plan.access_key_id)
              plan == Flags(last'.plan)
          IN  /\ \A i \in 1..Len(last'.calls) : last'.calls[i].fn # "DenyBucketKey"
              /\ \A f \in FlagNames :
                    (garage.perms[k][f] /\ ~plan[f]) =>
                        /\ garage'.perms[k][f]
                        /\ ~last'.err => Flags(permState')[f]]_vars

\* C30: the key holds owner before a Create with the plan read alone: after
\* it the key holds read and owner, and read and owner are stored
C30_Witness ==
    /\ last.op = "PermCreate"
    /\ ~last.err
    /\ last.drift
    /\ Flags(last.plan) = Perm(TRUE, FALSE, FALSE)
    /\ Sent(1) = Perm(TRUE, FALSE, FALSE)
    /\ garage.perms[K2] = Perm(TRUE, FALSE, TRUE)
    /\ Flags(permState) = Perm(TRUE, FALSE, TRUE)

====
